---- MODULE Spec2Model ----
(***************************************************************************)
(* Verification model of the HisaabKitaab browser client.                  *)
(*                                                                         *)
(* Part 1 - the session / store context (src/src/contexts/AuthContext.tsx) *)
(*          with the components that drive it (LoginPage, Layout,          *)
(*          StoreSelector).  Specifications: Spec (the application as the  *)
(*          user drives it) and ContractSpec (Spec plus a context consumer *)
(*          calling setCurrentStore with any Store | null, as the exported *)
(*          type of the context allows).                                   *)
(* Part 2 - the derived totals of the invoice and purchase forms           *)
(*          (NewInvoicePage, EditInvoicePage, NewPurchasePage).            *)
(*          Specification: FormSpec.                                       *)
(***************************************************************************)
EXTENDS Integers, Sequences, FiniteSets, Bags, TLC

VARIABLES
    phase,            \* AuthProvider lifecycle: "init" (constructed, mount effect not run), "mounted", "crashed"
    user,             \* useState<User | null>
    token,            \* useState<string | null>
    currentStore,     \* useState<Store | null>
    availableStores,  \* useState<Store[]>
    storage,          \* window.localStorage, keys auth_token, auth_user, current_store
    fetches,          \* bag of GET /stores/available requests in flight, each with the closure of the render that issued it
    loginReq,         \* the POST /auth/login request in flight (Null when none), with the closure of login
    loginLoading,     \* LoginPage: loading
    loginError,       \* LoginPage: error
    dispatched,       \* storeChanged events dispatched by the handler that ran last (dispatchEvent is synchronous)
    last,             \* observation: the handler that ran last, with its inputs
    lines,            \* form state: Line[]
    discountType,     \* form state: "percent" | "amount"
    discountValue,    \* form state: text of the discount field
    roundoff,         \* form state: text of the roundoff field
    view,             \* the page component that is mounted ("none" when none is modelled)
    page,             \* the mounted page's own React state, a record
    sent,             \* the fetch calls the handler that ran last has made, in order
    inflight          \* bag of the operations whose api request awaits its response

sessionVars == <<phase, user, token, currentStore, availableStores, storage,
                 fetches, loginReq, loginLoading, loginError, dispatched, last>>
formVars == <<lines, discountType, discountValue, roundoff>>
pageVars == <<view, page, sent, inflight>>

\* A handler that is not a page's: the page's state stays, and it makes no api call.
NoPageChange ==
    /\ sent' = <<>>
    /\ UNCHANGED <<view, page, inflight>>
vars == <<phase, user, token, currentStore, availableStores, storage,
          fetches, loginReq, loginLoading, loginError, dispatched, last,
          lines, discountType, discountValue, roundoff,
          view, page, sent, inflight>>

----------------------------------------------------------------------------
(* Values *)

\* JavaScript null (also what localStorage.getItem returns for an absent key).
Null == [null |-> TRUE]

\* Store objects the backend knows.
StoreA == [id |-> 1, name |-> "A"]
StoreB == [id |-> 2, name |-> "B"]
Stores == {StoreA, StoreB}

\* User profiles the backend can return from /auth/login.
Admin == [id |-> 1, role |-> "org_admin", store |-> Null]
Manager == [id |-> 2, role |-> "store_manager", store |-> StoreB]
Worker == [id |-> 3, role |-> "store_worker", store |-> StoreA]
Users == {Admin, Manager, Worker}

\* Bearer tokens the backend can issue (non-empty strings).
Tokens == {[jwt |-> "t1"], [jwt |-> "t2"]}

\* Bodies of a 200 response of GET /stores/available.
StoreLists == {<<>>, <<StoreA>>, <<StoreB>>, <<StoreA, StoreB>>}

\* Bound: requests to /stores/available that may be in flight together.
MaxFetches == 2

\* JSON.stringify of a plain object: a well-formed JSON text carrying the value.
Stringify(v) == [json |-> v]
\* A stored text that is not JSON (for instance a truncated write).
Malformed == [malformed |-> TRUE]
\* Whether JSON.parse accepts the text; it throws a SyntaxError otherwise.
IsWellFormed(text) == "json" \in DOMAIN text
\* JSON.parse of a well-formed text.
Parse(text) == text.json

StorageKeys == {"auth_token", "auth_user", "current_store"}

----------------------------------------------------------------------------
(* Part 1: the session / store context *)

\* The provider's state as one value: the four React states and localStorage.
Session ==
    [user |-> user, token |-> token, currentStore |-> currentStore,
     availableStores |-> availableStores, storage |-> storage]

\* localStorage.setItem / removeItem.
setItem(st, key, text) == [st EXCEPT ![key] = text]
removeItem(st, key) == [st EXCEPT ![key] = Null]

\* const isAuthenticated = !!user && !!token
isAuthenticatedIn(s) == s.user # Null /\ s.token # Null
isAuthenticated == isAuthenticatedIn(Session)
\* const isOrgAdmin = user?.role === 'org_admin'
isOrgAdmin == user # Null /\ user.role = "org_admin"

\* user?.store
UserStore(u) == IF u = Null THEN Null ELSE u.store

\* The closure a handler created in the render of state s reads.
Closure(s) == [token |-> s.token, user |-> s.user, currentStore |-> s.currentStore]

\* The provider's state before the mount effect: useState initial values.
Unmounted(st) ==
    [user |-> Null, token |-> Null, currentStore |-> Null,
     availableStores |-> <<>>, storage |-> st]

\* Mount effect: whether a JSON.parse of it throws (no try / catch around it).
rehydrateThrows(st) ==
    /\ st["auth_token"] # Null
    /\ st["auth_user"] # Null
    /\ \/ ~IsWellFormed(st["auth_user"])
       \/ st["current_store"] # Null /\ ~IsWellFormed(st["current_store"])

\* Mount effect, when it does not throw: the state it leaves.
rehydrate(s) ==
    LET storedToken == s.storage["auth_token"]
        storedUser == s.storage["auth_user"]
        storedStore == s.storage["current_store"]
    IN  IF storedToken # Null /\ storedUser # Null
        THEN [s EXCEPT !.token = storedToken,
                       !.user = Parse(storedUser),
                       !.currentStore =
                           IF storedStore # Null THEN Parse(storedStore)
                           ELSE IF Parse(storedUser).store # Null
                                THEN Parse(storedUser).store
                                ELSE @]
        ELSE s

\* Mutant of loginSuccess: the profile store is selected in memory but not persisted.
loginSuccess_storeNotPersisted(s, newToken, newUser) ==
    [s EXCEPT !.token = newToken,
              !.user = newUser,
              !.currentStore = newUser.store,
              !.storage = setItem(setItem(@, "auth_token", newToken),
                                  "auth_user", Stringify(newUser))]

\* login, after a response with response.ok: lines 132-143.
loginSuccess(s, newToken, newUser) ==
    [s EXCEPT !.token = newToken,
              !.user = newUser,
              !.currentStore = newUser.store,
              !.storage =
                  LET st1 == setItem(@, "auth_token", newToken)
                      st2 == setItem(st1, "auth_user", Stringify(newUser))
                  IN  IF newUser.store # Null
                      THEN setItem(st2, "current_store", Stringify(newUser.store))
                      ELSE st2]

\* Mutant of loginErrorMessage: the server's reason is dropped.
loginErrorMessage_generic(reason) == "Login failed"

\* login, after a response without response.ok: the message of the Error thrown
\* (error.error || 'Login failed'); reason is the body's error field, Null when
\* the body has none.
loginErrorMessage(reason) ==
    IF reason # Null /\ reason.text # "" THEN reason.text ELSE "Login failed"

\* LoginPage.handleSubmit, catch branch: the text shown.
loginPageErrorText(message) ==
    IF message # "" THEN message ELSE "Login failed. Please check your credentials."

\* Mutant of logoutStorage: the selected store is left in localStorage.
logoutStorage_keepsStore(st) ==
    removeItem(removeItem(st, "auth_token"), "auth_user")

\* logout: lines 149-157.
logoutStorage(st) ==
    removeItem(removeItem(removeItem(st, "auth_token"), "auth_user"), "current_store")

logout(s) ==
    [s EXCEPT !.user = Null, !.token = Null, !.currentStore = Null,
              !.availableStores = <<>>, !.storage = logoutStorage(@)]

\* Mutant of setCurrentStoreStorage: a null selection leaves the old key in place.
setCurrentStoreStorage_noRemove(st, store) ==
    IF store # Null THEN setItem(st, "current_store", Stringify(store)) ELSE st

\* handleSetCurrentStore: the state it leaves, and the events it dispatches.
setCurrentStoreStorage(st, store) ==
    IF store # Null
    THEN setItem(st, "current_store", Stringify(store))
    ELSE removeItem(st, "current_store")

handleSetCurrentStore(s, store) ==
    [s EXCEPT !.currentStore = store,
              !.storage = setCurrentStoreStorage(@, store)]

storeChangedEvents(store) == <<[type |-> "storeChanged", detail |-> store]>>

\* stores.find((s) => s.id === id): the first match, undefined (Null) when none.
find(stores, id) ==
    LET hits == {i \in 1..Len(stores) : stores[i].id = id}
    IN  IF hits = {} THEN Null
        ELSE stores[CHOOSE i \in hits : \A j \in hits : i <= j]

\* Mutant of autoSelect: the single-store branch is missing.
autoSelect_noSingleStore(c, stores) ==
    IF c.currentStore = Null /\ Len(stores) > 0 /\ UserStore(c.user) # Null
    THEN find(stores, c.user.store.id)
    ELSE Null

\* fetchAvailableStores, lines 93-106: the store it selects (Null: none), read
\* from the closure c of the render that issued the request.
autoSelect(c, stores) ==
    IF c.currentStore = Null /\ Len(stores) > 0
    THEN IF UserStore(c.user) # Null
         THEN find(stores, c.user.store.id)
         ELSE IF Len(stores) = 1 THEN stores[1] ELSE Null
    ELSE Null

\* fetchAvailableStores, after a response with response.ok.
fetchSuccess(s, c, stores) ==
    LET sel == autoSelect(c, stores)
    IN  [s EXCEPT !.availableStores = stores,
                  !.currentStore = IF sel # Null THEN sel ELSE @,
                  !.storage = IF sel # Null
                              THEN setItem(@, "current_store", Stringify(sel))
                              ELSE @]

\* The effect on [user, token]: the requests it issues after a render of s.
fetchEffect(s) ==
    IF s.user # Null /\ s.token # Null THEN SetToBag({Closure(s)}) ELSE EmptyBag

\* fetchAvailableStores called from a closure c: if (!token) return.
fetchCall(c) ==
    IF c.token = Null THEN EmptyBag ELSE SetToBag({c})

Apply(s) ==
    /\ user' = s.user
    /\ token' = s.token
    /\ currentStore' = s.currentStore
    /\ availableStores' = s.availableStores
    /\ storage' = s.storage

----------------------------------------------------------------------------
(* Actions of the session *)

\* What localStorage may hold when the page is opened.
StoredTokens == {Null} \cup Tokens
StoredUsers == {Null, Malformed} \cup {Stringify(u) : u \in Users}
StoredStores == {Null, Malformed} \cup {Stringify(s) : s \in Stores}

\* No page is modelled: nothing mounted, nothing sent, nothing awaited.
PagesIdle ==
    /\ view = "none"
    /\ page = [kind |-> "none"]
    /\ sent = <<>>
    /\ inflight = EmptyBag

\* No invoice / purchase form is mounted.
FormIdle ==
    /\ lines = <<>>
    /\ discountType = "percent"
    /\ discountValue = <<>>
    /\ roundoff = <<>>

Init ==
    /\ phase = "init"
    /\ user = Null
    /\ token = Null
    /\ currentStore = Null
    /\ availableStores = <<>>
    /\ storage \in [StorageKeys -> StoredTokens \cup StoredUsers \cup StoredStores]
    /\ storage["auth_token"] \in StoredTokens
    /\ storage["auth_user"] \in StoredUsers
    /\ storage["current_store"] \in StoredStores
    /\ fetches = EmptyBag
    /\ loginReq = Null
    /\ loginLoading = FALSE
    /\ loginError = ""
    /\ dispatched = <<>>
    /\ last = [op |-> "init"]
    /\ FormIdle
    /\ PagesIdle

\* AuthProvider mount effect (rehydration), then the effect on [user, token].
Mount ==
    /\ phase = "init"
    /\ IF rehydrateThrows(storage)
       THEN /\ phase' = "crashed"
            /\ UNCHANGED <<user, token, currentStore, availableStores, storage, fetches>>
       ELSE /\ phase' = "mounted"
            /\ Apply(rehydrate(Session))
            /\ fetches' = fetchEffect(rehydrate(Session))
    /\ last' = [op |-> "mount"]
    /\ dispatched' = <<>>
    /\ UNCHANGED <<loginReq, loginLoading, loginError>>
    /\ UNCHANGED formVars
    /\ NoPageChange

\* The user reloads the page: memory is lost, requests are abandoned, storage stays.
Reload ==
    /\ phase # "init"
    /\ phase' = "init"
    /\ Apply(Unmounted(storage))
    /\ fetches' = EmptyBag
    /\ loginReq' = Null
    /\ loginLoading' = FALSE
    /\ loginError' = ""
    /\ dispatched' = <<>>
    /\ last' = [op |-> "reload"]
    /\ UNCHANGED formVars
    /\ NoPageChange

\* LoginPage.handleSubmit up to the await: the page is rendered when not authenticated.
LoginSubmit ==
    /\ phase = "mounted"
    /\ ~isAuthenticated
    /\ ~loginLoading
    /\ BagCardinality(fetches) + BagCardinality(fetchCall(Closure(Session))) < MaxFetches
    /\ loginReq' = Closure(Session)
    /\ loginLoading' = TRUE
    /\ loginError' = ""
    /\ dispatched' = <<>>
    /\ last' = [op |-> "login_submit"]
    /\ UNCHANGED <<phase, user, token, currentStore, availableStores, storage, fetches>>
    /\ UNCHANGED formVars
    /\ NoPageChange

\* login resumes with response.ok; then the [user, token] effect; LoginPage unmounts.
LoginResponseOk(newToken, newUser) ==
    /\ loginReq # Null
    /\ Apply(loginSuccess(Session, newToken, newUser))
    /\ fetches' = fetches (+) fetchCall(loginReq)
                          (+) fetchEffect(loginSuccess(Session, newToken, newUser))
    /\ loginReq' = Null
    /\ loginLoading' = FALSE
    /\ loginError' = ""
    /\ dispatched' = <<>>
    /\ last' = [op |-> "login_ok", token |-> newToken, user |-> newUser]
    /\ UNCHANGED phase
    /\ UNCHANGED formVars
    /\ NoPageChange

\* The reasons a failed /auth/login may carry in its body's error field.
Reasons == {Null, [text |-> ""], [text |-> "Invalid email or password"],
            [text |-> "Account is inactive"]}

\* login resumes with !response.ok and throws; LoginPage.handleSubmit catches.
LoginResponseFail(reason) ==
    /\ loginReq # Null
    /\ loginReq' = Null
    /\ loginError' = loginPageErrorText(loginErrorMessage(reason))
    /\ loginLoading' = FALSE
    /\ dispatched' = <<>>
    /\ last' = [op |-> "login_fail", reason |-> reason]
    /\ UNCHANGED <<phase, user, token, currentStore, availableStores, storage, fetches>>
    /\ UNCHANGED formVars
    /\ NoPageChange

\* Layout.handleLogout: the layout is rendered when authenticated.
Logout ==
    /\ phase = "mounted"
    /\ isAuthenticated
    /\ Apply(logout(Session))
    /\ dispatched' = <<>>
    /\ last' = [op |-> "logout", before |-> Closure(Session)]
    /\ UNCHANGED <<phase, fetches, loginReq, loginLoading, loginError>>
    /\ UNCHANGED formVars
    /\ NoPageChange

SetCurrentStore(store, how) ==
    /\ Apply(handleSetCurrentStore(Session, store))
    /\ dispatched' = storeChangedEvents(store)
    /\ last' = [op |-> how, store |-> store, before |-> currentStore]
    /\ UNCHANGED <<phase, fetches, loginReq, loginLoading, loginError>>
    /\ UNCHANGED formVars
    /\ NoPageChange

\* StoreSelector: a click on one of the listed stores (org admins only).
StoreSelectorClick(i) ==
    /\ phase = "mounted"
    /\ isAuthenticated
    /\ isOrgAdmin
    /\ i \in 1..Len(availableStores)
    /\ SetCurrentStore(availableStores[i], "select")

\* StoreSelector: the effect that selects the first store when none is selected.
StoreSelectorDefault ==
    /\ phase = "mounted"
    /\ isAuthenticated
    /\ isOrgAdmin
    /\ Len(availableStores) > 0
    /\ currentStore = Null
    /\ SetCurrentStore(availableStores[1], "default")

\* A consumer of the context calls setCurrentStore(store: Store | null).
ConsumerSetCurrentStore(store) ==
    /\ phase = "mounted"
    /\ SetCurrentStore(store, "set")

\* A consumer of the context calls fetchAvailableStores().
ConsumerFetchAvailableStores ==
    /\ phase = "mounted"
    /\ BagCardinality(fetches) < MaxFetches
    /\ fetches' = fetches (+) fetchCall(Closure(Session))
    /\ dispatched' = <<>>
    /\ last' = [op |-> "fetch_call"]
    /\ UNCHANGED <<phase, user, token, currentStore, availableStores, storage,
                   loginReq, loginLoading, loginError>>
    /\ UNCHANGED formVars
    /\ NoPageChange

\* A request to /stores/available is answered with response.ok.
FetchResponseOk(c, stores) ==
    /\ BagIn(c, fetches)
    /\ fetches' = fetches (-) SetToBag({c})
    /\ Apply(fetchSuccess(Session, c, stores))
    /\ dispatched' = <<>>
    /\ last' = [op |-> "fetch_ok", closure |-> c, stores |-> stores, before |-> currentStore]
    /\ UNCHANGED <<phase, loginReq, loginLoading, loginError>>
    /\ UNCHANGED formVars
    /\ NoPageChange

\* A request to /stores/available fails or is answered without response.ok.
FetchResponseFail(c) ==
    /\ BagIn(c, fetches)
    /\ fetches' = fetches (-) SetToBag({c})
    /\ dispatched' = <<>>
    /\ last' = [op |-> "fetch_fail"]
    /\ UNCHANGED <<phase, user, token, currentStore, availableStores, storage,
                   loginReq, loginLoading, loginError>>
    /\ UNCHANGED formVars
    /\ NoPageChange

Next ==
    \/ Mount
    \/ Reload
    \/ LoginSubmit
    \/ \E t \in Tokens, u \in Users : LoginResponseOk(t, u)
    \/ \E r \in Reasons : LoginResponseFail(r)
    \/ Logout
    \/ \E i \in 1..2 : StoreSelectorClick(i)
    \/ StoreSelectorDefault
    \/ \E c \in BagToSet(fetches), l \in StoreLists : FetchResponseOk(c, l)
    \/ \E c \in BagToSet(fetches) : FetchResponseFail(c)

Spec == Init /\ [][Next]_vars

ContractNext ==
    \/ Next
    \/ \E s \in Stores \cup {Null} : ConsumerSetCurrentStore(s)
    \/ ConsumerFetchAvailableStores

ContractSpec == Init /\ [][ContractNext]_vars

----------------------------------------------------------------------------
(* Part 2: the derived totals of the invoice and purchase forms *)

\* Texts are sequences of characters.  Numbers are exact decimals held as
\* integers in units of 1 / Scale; every text enumerated below has at most two
\* decimals, so every product and quotient formed here is exact.
Scale == 100 * 100 * 100

\* (a * b) / 100 for two amounts of at most two decimals, in units of 1 / Scale
\* (the factors are taken in hundredths to stay within TLC's integers).
MulDiv100(a, b) == (a \div (Scale \div 100)) * (b \div (Scale \div 100))

\* A JavaScript number that may be NaN.
Num(v) == [nan |-> FALSE, val |-> v]
NaN == [nan |-> TRUE, val |-> 0]
\* Mutant of OrZero: the fallback is 1 instead of 0.
OrZero_fallsBackToOne(x) == IF x.nan \/ x.val = 0 THEN 100 * 100 * 100 ELSE x.val

\* x || 0 for a number x: NaN and 0 are falsy.
OrZero(x) == IF x.nan \/ x.val = 0 THEN 0 ELSE x.val

DigitChars == <<"0", "1", "2", "3", "4", "5", "6", "7", "8", "9">>
IsDigit(c) == \E d \in 1..10 : DigitChars[d] = c
DigitValue(c) == (CHOOSE d \in 1..10 : DigitChars[d] = c) - 1
IsSpace(c) == c = " "

RECURSIVE SkipSpaces(_, _)
\* Index of the first character at or after i that is not white space.
SkipSpaces(text, i) ==
    IF i <= Len(text) /\ IsSpace(text[i]) THEN SkipSpaces(text, i + 1) ELSE i

RECURSIVE DigitRun(_, _)
\* Number of consecutive digits from index i.
DigitRun(text, i) ==
    IF i <= Len(text) /\ IsDigit(text[i]) THEN 1 + DigitRun(text, i + 1) ELSE 0

RECURSIVE DigitsToInt(_, _, _)
\* The integer written by the n digits from index i.
DigitsToInt(text, i, n) ==
    IF n = 0 THEN 0
    ELSE DigitsToInt(text, i, n - 1) * 10 + DigitValue(text[i + n - 1])

RECURSIVE Pow10(_)
Pow10(n) == IF n = 0 THEN 1 ELSE 10 * Pow10(n - 1)

\* String.prototype.trim() leaves the empty string.
IsBlank(text) == \A i \in 1..Len(text) : IsSpace(text[i])

\* parseFloat(text): leading white space, a sign, digits, a fraction; whatever
\* follows the longest numeric prefix is ignored; NaN when there is no digit.
\* (Exponents and "Infinity" do not occur in the texts enumerated here.)
parseFloat(text) ==
    LET i0 == SkipSpaces(text, 1)
        signed == i0 <= Len(text) /\ text[i0] \in {"+", "-"}
        neg == i0 <= Len(text) /\ text[i0] = "-"
        i1 == IF signed THEN i0 + 1 ELSE i0
        n1 == DigitRun(text, i1)
        dot == i1 + n1 <= Len(text) /\ text[i1 + n1] = "."
        n2 == IF dot THEN DigitRun(text, i1 + n1 + 1) ELSE 0
        whole == DigitsToInt(text, i1, n1) * Scale
        frac == (DigitsToInt(text, i1 + n1 + 1, n2) * Scale) \div Pow10(n2)
    IN  IF n1 + n2 = 0 THEN NaN
        ELSE Num((IF neg THEN -1 ELSE 1) * (whole + frac))

\* parseInt(text, 10): leading white space, a sign, digits; NaN when no digit.
parseInt(text) ==
    LET i0 == SkipSpaces(text, 1)
        signed == i0 <= Len(text) /\ text[i0] \in {"+", "-"}
        neg == i0 <= Len(text) /\ text[i0] = "-"
        i1 == IF signed THEN i0 + 1 ELSE i0
        n1 == DigitRun(text, i1)
    IN  IF n1 = 0 THEN NaN
        ELSE Num((IF neg THEN -1 ELSE 1) * DigitsToInt(text, i1, n1))

\* text || "0"
OrTextZero(text) == IF text = <<>> THEN <<"0">> ELSE text

\* The line a form starts with and addLine appends.
EmptyLine == [product_id |-> "", quantity |-> Num(1), unit_price |-> <<"0">>]

\* Mutant of NewInvoice_lineAmount: a line without a product is counted too.
NewInvoice_lineAmount_countsIncomplete(l) ==
    OrZero(l.quantity) * OrZero(parseFloat(OrTextZero(l.unit_price)))

\* NewInvoicePage, the reducer's body: the contribution of one line.
NewInvoice_lineAmount(l) ==
    IF l.product_id = "" THEN 0
    ELSE LET qty == OrZero(l.quantity)
             price == OrZero(parseFloat(OrTextZero(l.unit_price)))
         IN  qty * price

RECURSIVE NewInvoice_reduce(_, _)
\* lines.reduce((sum, l) => ..., sum0)
NewInvoice_reduce(ls, sum) ==
    IF ls = <<>> THEN sum
    ELSE NewInvoice_reduce(Tail(ls), sum + NewInvoice_lineAmount(Head(ls)))

\* NewInvoicePage: subtotal, discountAmount, roundoffAmount, grandTotal.
NewInvoice_subtotal(ls) == NewInvoice_reduce(ls, 0)

\* Mutant of NewInvoice_discountAmount: a fixed amount is applied as a percentage.
NewInvoice_discountAmount_alwaysPercent(sub, dType, dValue) ==
    IF IsBlank(dValue) THEN 0
    ELSE MulDiv100(sub, OrZero(parseFloat(dValue)))

NewInvoice_discountAmount(sub, dType, dValue) ==
    IF IsBlank(dValue) THEN 0
    ELSE LET value == OrZero(parseFloat(dValue))
         IN  IF dType = "percent" THEN MulDiv100(sub, value)
             ELSE value

NewInvoice_roundoffAmount(ro) ==
    IF IsBlank(ro) THEN 0 ELSE OrZero(parseFloat(ro))

Max(a, b) == IF a >= b THEN a ELSE b

\* Mutant of NewInvoice_grandTotal: the floor is applied after the roundoff.
NewInvoice_grandTotal_floorsLast(sub, disc, ro) == Max(0, sub - disc + ro)

NewInvoice_grandTotal(sub, disc, ro) ==
    LET baseTotal == Max(0, sub - disc) IN baseTotal + ro

\* EditInvoicePage: the same derived values, from its own source.
EditInvoice_lineAmount(l) ==
    IF l.product_id = "" THEN 0
    ELSE LET qty == OrZero(l.quantity)
             price == OrZero(parseFloat(OrTextZero(l.unit_price)))
         IN  qty * price

RECURSIVE EditInvoice_reduce(_, _)
EditInvoice_reduce(ls, sum) ==
    IF ls = <<>> THEN sum
    ELSE EditInvoice_reduce(Tail(ls), sum + EditInvoice_lineAmount(Head(ls)))

EditInvoice_subtotal(ls) == EditInvoice_reduce(ls, 0)

EditInvoice_discountAmount(sub, dType, dValue) ==
    IF IsBlank(dValue) THEN 0
    ELSE LET value == OrZero(parseFloat(dValue))
         IN  IF dType = "percent" THEN MulDiv100(sub, value)
             ELSE value

EditInvoice_roundoffAmount(ro) ==
    IF IsBlank(ro) THEN 0 ELSE OrZero(parseFloat(ro))

EditInvoice_grandTotal(sub, disc, ro) ==
    LET baseTotal == Max(0, sub - disc) IN baseTotal + ro

\* NewPurchasePage: subtotal.
NewPurchase_lineAmount(l) ==
    IF l.product_id = "" THEN 0
    ELSE LET qty == OrZero(l.quantity)
             price == OrZero(parseFloat(OrTextZero(l.unit_price)))
         IN  qty * price

RECURSIVE NewPurchase_reduce(_, _)
NewPurchase_reduce(ls, sum) ==
    IF ls = <<>> THEN sum
    ELSE NewPurchase_reduce(Tail(ls), sum + NewPurchase_lineAmount(Head(ls)))

NewPurchase_subtotal(ls) == NewPurchase_reduce(ls, 0)

\* The derived values of the form as it stands.
subtotal == NewInvoice_subtotal(lines)
discountAmount == NewInvoice_discountAmount(subtotal, discountType, discountValue)
roundoffAmount == NewInvoice_roundoffAmount(roundoff)
grandTotal == NewInvoice_grandTotal(subtotal, discountAmount, roundoffAmount)

----------------------------------------------------------------------------
(* Actions of the forms *)

\* Bound: lines a form may hold.
MaxLines == 2

\* Active products the backend lists: id, the two prices (decimal strings) and
\* the stock.
Products == {[id |-> "1", selling_price |-> <<"1", "0", "0">>,
              purchase_price |-> <<"9", "0">>, current_stock |-> 1]}

\* Texts typed into the quantity field (type="number": "" or a valid number).
QtyTexts == {<<>>, <<"-", "1">>}
\* Texts typed into the price field (a plain text input).
PriceTexts == {<<"a", "b", "c">>}
\* Texts typed into the discount field.
DiscountTexts == {<<>>, <<"1", "0">>, <<"1", "5", "0">>, <<"a", "b", "c">>, <<"-", "5">>}
\* Texts typed into the roundoff field.
RoundoffTexts == {<<>>, <<"-", "0", ".", "4", "0">>, <<"a", "b", "c">>}

SessionIdle ==
    /\ phase = "init"
    /\ user = Null
    /\ token = Null
    /\ currentStore = Null
    /\ availableStores = <<>>
    /\ storage = [k \in StorageKeys |-> Null]
    /\ fetches = EmptyBag
    /\ loginReq = Null
    /\ loginLoading = FALSE
    /\ loginError = ""
    /\ dispatched = <<>>
    /\ last = [op |-> "init"]

\* A form after construction: NewInvoicePage starts with discountType
\* "percent", EditInvoicePage with "amount".
FormInit ==
    /\ SessionIdle
    /\ PagesIdle
    /\ lines = <<EmptyLine>>
    /\ discountType \in {"percent", "amount"}
    /\ discountValue = <<>>
    /\ roundoff = <<>>

\* updateLine(idx, patch)
updateLine(ls, idx, patch) ==
    [i \in 1..Len(ls) |->
        IF i = idx
        THEN [f \in DOMAIN ls[i] |-> IF f \in DOMAIN patch THEN patch[f] ELSE ls[i][f]]
        ELSE ls[i]]

\* removeLine(idx): prev.filter((_, i) => i !== idx)
removeLine(ls, idx) ==
    SubSeq(ls, 1, idx - 1) \o SubSeq(ls, idx + 1, Len(ls))

\* A click on a product of the dropdown of line idx.
SelectProduct(idx, p) ==
    /\ idx \in 1..Len(lines)
    /\ lines' = updateLine(lines, idx,
                    [product_id |-> p.id, unit_price |-> p.selling_price])
    /\ UNCHANGED <<discountType, discountValue, roundoff>>
    /\ UNCHANGED sessionVars
    /\ NoPageChange

\* Typing in the product search box of a line that has a product.
ClearProduct(idx) ==
    /\ idx \in 1..Len(lines)
    /\ lines[idx].product_id # ""
    /\ lines' = updateLine(lines, idx, [product_id |-> ""])
    /\ UNCHANGED <<discountType, discountValue, roundoff>>
    /\ UNCHANGED sessionVars
    /\ NoPageChange

\* Typing in the Qty field: quantity: parseInt(e.target.value || "0", 10)
SetQuantity(idx, text) ==
    /\ idx \in 1..Len(lines)
    /\ lines' = updateLine(lines, idx, [quantity |-> parseInt(OrTextZero(text))])
    /\ UNCHANGED <<discountType, discountValue, roundoff>>
    /\ UNCHANGED sessionVars
    /\ NoPageChange

\* Typing in the price field: unit_price: e.target.value
SetUnitPrice(idx, text) ==
    /\ idx \in 1..Len(lines)
    /\ lines' = updateLine(lines, idx, [unit_price |-> text])
    /\ UNCHANGED <<discountType, discountValue, roundoff>>
    /\ UNCHANGED sessionVars
    /\ NoPageChange

AddLine ==
    /\ Len(lines) < MaxLines
    /\ lines' = Append(lines, EmptyLine)
    /\ UNCHANGED <<discountType, discountValue, roundoff>>
    /\ UNCHANGED sessionVars
    /\ NoPageChange

\* The Remove button is disabled while the form has one line.
RemoveLine(idx) ==
    /\ idx \in 1..Len(lines)
    /\ Len(lines) # 1
    /\ lines' = removeLine(lines, idx)
    /\ UNCHANGED <<discountType, discountValue, roundoff>>
    /\ UNCHANGED sessionVars
    /\ NoPageChange

\* The % and the rupee buttons: the type is set and the value cleared.
SetDiscountType(dType) ==
    /\ discountType' = dType
    /\ discountValue' = <<>>
    /\ UNCHANGED <<lines, roundoff>>
    /\ UNCHANGED sessionVars
    /\ NoPageChange

SetDiscountValue(text) ==
    /\ discountValue' = text
    /\ UNCHANGED <<lines, discountType, roundoff>>
    /\ UNCHANGED sessionVars
    /\ NoPageChange

SetRoundoff(text) ==
    /\ roundoff' = text
    /\ UNCHANGED <<lines, discountType, discountValue>>
    /\ UNCHANGED sessionVars
    /\ NoPageChange

FormNext ==
    \/ \E idx \in 1..Len(lines), p \in Products : SelectProduct(idx, p)
    \/ \E idx \in 1..Len(lines) : ClearProduct(idx)
    \/ \E idx \in 1..Len(lines), t \in QtyTexts : SetQuantity(idx, t)
    \/ \E idx \in 1..Len(lines), t \in PriceTexts : SetUnitPrice(idx, t)
    \/ AddLine
    \/ \E idx \in 1..Len(lines) : RemoveLine(idx)
    \/ \E d \in {"percent", "amount"} : SetDiscountType(d)
    \/ \E t \in DiscountTexts : SetDiscountValue(t)
    \/ \E t \in RoundoffTexts : SetRoundoff(t)

FormSpec == FormInit /\ [][FormNext]_vars

----------------------------------------------------------------------------
(* Claims about the session / store context *)

AllCleared(s) ==
    /\ s.user = Null
    /\ s.token = Null
    /\ s.currentStore = Null
    /\ s.availableStores = <<>>
    /\ \A k \in StorageKeys : s.storage[k] = Null

\* C1: logout() in any reachable session state leaves user, token and
\* currentStore null, availableStores empty and the three storage keys absent;
\* a second logout changes nothing; a rehydration run against the resulting
\* storage does not throw and stays anonymous.
C1_LogoutClearsEverything ==
    /\ LET r == logout(Session)
       IN  /\ AllCleared(r)
           /\ logout(r) = r
           /\ ~rehydrateThrows(r.storage)
           /\ rehydrate(Unmounted(r.storage)) = Unmounted(r.storage)
           /\ ~isAuthenticatedIn(rehydrate(Unmounted(r.storage)))
    /\ last.op = "logout" => AllCleared(Session)

\* C1 witness: logout has just run in a session that had a store selected.
C1_Witness ==
    /\ last.op = "logout"
    /\ last.before.currentStore # Null
    /\ last.before.user # Null
    /\ AllCleared(Session)

\* C2: after login resumed with a successful response {token, user}, the
\* session is authenticated with that token and user, storage holds the token
\* and the serialized user, and currentStore is user.store (persisted under
\* current_store when it is not null).
C2_LoginSuccessPersists ==
    last.op = "login_ok" =>
        /\ isAuthenticated
        /\ token = last.token
        /\ user = last.user
        /\ storage["auth_token"] = last.token
        /\ storage["auth_user"] = Stringify(last.user)
        /\ Parse(storage["auth_user"]) = last.user
        /\ currentStore = last.user.store
        /\ last.user.store # Null =>
               storage["current_store"] = Stringify(last.user.store)

\* C2 witness: a user whose profile carries a store has just logged in.
C2_Witness ==
    /\ last.op = "login_ok"
    /\ last.user.store # Null
    /\ currentStore = last.user.store
    /\ storage["current_store"] = Stringify(last.user.store)
    /\ storage["auth_token"] = token

\* C3: a login answered with a non-OK response changes nothing of the session
\* (user, token, currentStore, availableStores, storage), leaves it anonymous,
\* and when the server supplied a reason the error raised and the text the
\* login page shows are that reason, unchanged.
C3_LoginFailureChangesNothing ==
    [][last'.op = "login_fail" =>
          /\ UNCHANGED <<user, token, currentStore, availableStores, storage>>
          /\ ~isAuthenticated'
          /\ ~loginLoading'
          /\ (last'.reason # Null /\ last'.reason.text # "") =>
                 /\ loginErrorMessage(last'.reason) = last'.reason.text
                 /\ loginError' = last'.reason.text]_vars

\* C3 witness: a login was refused with a reason and the page shows it.
C3_Witness ==
    /\ last.op = "login_fail"
    /\ last.reason = [text |-> "Invalid email or password"]
    /\ loginError = "Invalid email or password"
    /\ ~isAuthenticated

\* C4: setCurrentStore(store) sets currentStore to store, writes it to the
\* current_store key (removes the key for null) and dispatches exactly one
\* storeChanged event whose detail is store.
C4_SetCurrentStore ==
    last.op \in {"set", "select", "default"} =>
        /\ currentStore = last.store
        /\ storage["current_store"] =
               (IF last.store = Null THEN Null ELSE Stringify(last.store))
        /\ Len(dispatched) = 1
        /\ dispatched[1] = [type |-> "storeChanged", detail |-> last.store]

\* C4 witness: store B has just been selected while store A was selected.
C4_Witness ==
    /\ last.op \in {"set", "select"}
    /\ last.before = StoreA
    /\ last.store = StoreB
    /\ currentStore = StoreB
    /\ dispatched = <<[type |-> "storeChanged", detail |-> StoreB]>>

\* C4, second case reached: a null selection has just removed the key.
C4_WitnessNull ==
    /\ last.op = "set"
    /\ last.before # Null
    /\ last.store = Null
    /\ storage["current_store"] = Null
    /\ dispatched = <<[type |-> "storeChanged", detail |-> Null]>>

\* C5 as claimed: whenever a response of fetchAvailableStores returns exactly
\* one store and no store is selected, that store becomes currentStore and is
\* written to current_store, for every authenticated user whatever its role
\* and profile store.
C5_Original ==
    (/\ last.op = "fetch_ok"
     /\ Len(last.stores) = 1
     /\ last.before = Null
     /\ isAuthenticated) =>
        /\ currentStore = last.stores[1]
        /\ storage["current_store"] = Stringify(last.stores[1])

\* C5 amended: whenever a response of fetchAvailableStores returns exactly one
\* store, no store was selected in the render that issued the request, and the
\* user of that render has no profile store or a profile store with the
\* returned store's id, that store becomes currentStore and is written to
\* current_store.
C5_AutoSelectSingleStore ==
    (/\ last.op = "fetch_ok"
     /\ Len(last.stores) = 1
     /\ last.closure.currentStore = Null
     /\ \/ UserStore(last.closure.user) = Null
        \/ UserStore(last.closure.user).id = last.stores[1].id) =>
        /\ currentStore = last.stores[1]
        /\ storage["current_store"] = Stringify(last.stores[1])
        /\ availableStores = last.stores

\* C5 witness: an org admin without a profile store and without a selection
\* has just received a one-store list.
C5_Witness ==
    /\ last.op = "fetch_ok"
    /\ Len(last.stores) = 1
    /\ last.before = Null
    /\ last.closure.currentStore = Null
    /\ last.closure.user = Admin
    /\ user = Admin
    /\ currentStore = last.stores[1]

\* C6 as claimed: at mount, rehydration completes; when auth_token or
\* auth_user is absent, or a persisted value is not well-formed JSON, it
\* completes with user, token and currentStore null; the session is
\* authenticated after it only when auth_token and a well-formed auth_user are
\* present.
C6_Original ==
    last.op = "mount" =>
        /\ phase = "mounted"
        /\ (\/ storage["auth_token"] = Null
            \/ storage["auth_user"] = Null
            \/ ~IsWellFormed(storage["auth_user"])
            \/ storage["current_store"] # Null /\ ~IsWellFormed(storage["current_store"]))
               => (user = Null /\ token = Null /\ currentStore = Null)
        /\ isAuthenticated =>
               (storage["auth_token"] # Null /\ storage["auth_user"] # Null
                /\ IsWellFormed(storage["auth_user"]))

----------------------------------------------------------------------------
(* Claims about the derived totals *)

\* An amount of n hundredths.
Cents(n) == n * (Scale \div 100)

\* The derived values as EditInvoicePage computes them.
EditInvoice_totals ==
    LET sub == EditInvoice_subtotal(lines)
        disc == EditInvoice_discountAmount(sub, discountType, discountValue)
        ro == EditInvoice_roundoffAmount(roundoff)
    IN  [subtotal |-> sub, discountAmount |-> disc, roundoffAmount |-> ro,
         grandTotal |-> EditInvoice_grandTotal(sub, disc, ro)]

\* C7: grandTotal = max(0, subtotal - discountAmount) + roundoffAmount: the
\* base is never negative, the roundoff is added after the floor and is not
\* clamped, so grandTotal < 0 exactly when roundoffAmount < -base; subtotal 100
\* with 10 percent and roundoff -0.40 gives 89.60; a fixed discount of 150 on
\* subtotal 100 gives base 0; New Invoice and Edit Invoice agree.
C7_GrandTotal ==
    LET base == IF subtotal - discountAmount > 0 THEN subtotal - discountAmount ELSE 0
    IN  /\ base >= 0
        /\ grandTotal = base + roundoffAmount
        /\ (grandTotal < 0) <=> (roundoffAmount < -base)
        /\ (/\ subtotal = Cents(10000)
            /\ discountType = "percent"
            /\ discountValue = <<"1", "0">>
            /\ roundoff = <<"-", "0", ".", "4", "0">>) => grandTotal = Cents(8960)
        /\ (/\ subtotal = Cents(10000)
            /\ discountType = "amount"
            /\ discountValue = <<"1", "5", "0">>) =>
               (base = 0 /\ grandTotal = roundoffAmount)
        /\ EditInvoice_totals.grandTotal = grandTotal

\* C7 witness: subtotal 100, 10 percent, roundoff -0.40, grand total 89.60.
C7_Witness ==
    /\ subtotal = Cents(10000)
    /\ discountType = "percent"
    /\ discountValue = <<"1", "0">>
    /\ roundoff = <<"-", "0", ".", "4", "0">>
    /\ grandTotal = Cents(8960)

\* C7, second case reached: a negative grand total (base 0, roundoff -0.40).
C7_WitnessNegative ==
    /\ subtotal = Cents(10000)
    /\ discountType = "amount"
    /\ discountValue = <<"1", "5", "0">>
    /\ grandTotal = -Cents(40)

\* C8: discountAmount is 0 when the discount value is blank; otherwise, for a
\* value that parses, it is subtotal * value / 100 with type percent (10 on
\* subtotal 100 gives 10.00) and the value itself with type fixed, whatever
\* the subtotal; New Invoice and Edit Invoice agree.
C8_DiscountAmount ==
    LET value == parseFloat(discountValue)
    IN  /\ IsBlank(discountValue) => discountAmount = 0
        /\ (~IsBlank(discountValue) /\ ~value.nan /\ discountType = "percent") =>
               /\ value.val % Scale = 0
               /\ subtotal % 100 = 0
               /\ discountAmount = (subtotal \div 100) * (value.val \div Scale)
        /\ (~IsBlank(discountValue) /\ ~value.nan /\ discountType = "amount") =>
               discountAmount = value.val
        /\ (discountType = "percent" /\ discountValue = <<"1", "0">>
            /\ subtotal = Cents(10000)) => discountAmount = Cents(1000)
        /\ (discountType = "amount" /\ discountValue = <<"1", "5", "0">>) =>
               discountAmount = Cents(15000)
        /\ EditInvoice_totals.discountAmount = discountAmount

\* C8 witness: a fixed discount of 150 on a subtotal that is not 150.
C8_Witness ==
    /\ discountType = "amount"
    /\ discountValue = <<"1", "5", "0">>
    /\ subtotal = Cents(20000)
    /\ discountAmount = Cents(15000)

\* C8, second case reached: 10 percent of subtotal 100 is 10.00.
C8_WitnessPercent ==
    /\ discountType = "percent"
    /\ discountValue = <<"1", "0">>
    /\ subtotal = Cents(10000)
    /\ discountAmount = Cents(1000)

RECURSIVE C9_Sum(_, _)
\* Sum of quantity * unit_price over the first n lines that have a product.
C9_Sum(ls, n) ==
    IF n = 0 THEN 0
    ELSE C9_Sum(ls, n - 1)
         + (IF ls[n].product_id # ""
            THEN OrZero(ls[n].quantity) * OrZero(parseFloat(OrTextZero(ls[n].unit_price)))
            ELSE 0)

C9_HasProduct(l) == l.product_id # ""

\* C9: the subtotal is the sum of quantity * unit_price over exactly the lines
\* that have a product reference; a line without a product contributes 0; the
\* empty list and a list of product-less lines give 0; the invoice forms and
\* the purchase form compute it identically.
C9_Subtotal ==
    /\ subtotal = C9_Sum(lines, Len(lines))
    /\ subtotal = NewInvoice_subtotal(SelectSeq(lines, C9_HasProduct))
    /\ (\A i \in 1..Len(lines) : lines[i].product_id = "") => subtotal = 0
    /\ NewInvoice_subtotal(<<>>) = 0
    /\ EditInvoice_subtotal(<<>>) = 0
    /\ NewPurchase_subtotal(<<>>) = 0
    /\ EditInvoice_subtotal(lines) = subtotal
    /\ NewPurchase_subtotal(lines) = subtotal

\* C9 witness: a product-less line with quantity 1 and price 100 next to a
\* line with a product; the subtotal is the second line's alone.
C9_Witness ==
    /\ Len(lines) = 2
    /\ lines[1] = [product_id |-> "", quantity |-> Num(1), unit_price |-> <<"1", "0", "0">>]
    /\ lines[2] = [product_id |-> "1", quantity |-> Num(1), unit_price |-> <<"1", "0", "0">>]
    /\ subtotal = Cents(10000)

\* Texts that do not parse as a number.
C10_Unparsable ==
    {<<>>, <<" ">>, <<"a", "b", "c">>, <<"-">>, <<".">>, <<"x", "1">>}

\* C10: a discount value, a roundoff or a unit price that does not parse as a
\* number has exactly the effect of the field being omitted: discountAmount 0,
\* roundoffAmount 0, line price 0; the totals are defined for every content.
C10_UnparsableIsOmitted ==
    /\ parseFloat(discountValue).nan =>
           /\ discountAmount = 0
           /\ grandTotal = NewInvoice_grandTotal(subtotal,
                              NewInvoice_discountAmount(subtotal, discountType, <<>>),
                              roundoffAmount)
    /\ parseFloat(roundoff).nan =>
           /\ roundoffAmount = 0
           /\ grandTotal = NewInvoice_grandTotal(subtotal, discountAmount,
                                                 NewInvoice_roundoffAmount(<<>>))
    /\ \A i \in 1..Len(lines) :
           parseFloat(lines[i].unit_price).nan =>
               /\ NewInvoice_lineAmount(lines[i]) = 0
               /\ EditInvoice_lineAmount(lines[i]) = 0
               /\ NewPurchase_lineAmount(lines[i]) = 0
               /\ subtotal = NewInvoice_subtotal(
                                 updateLine(lines, i, [unit_price |-> <<"0">>]))
    /\ \A t \in C10_Unparsable :
           /\ parseFloat(t).nan
           /\ NewInvoice_discountAmount(subtotal, "percent", t) = 0
           /\ NewInvoice_discountAmount(subtotal, "amount", t) = 0
           /\ EditInvoice_discountAmount(subtotal, discountType, t) = 0
           /\ NewInvoice_roundoffAmount(t) = 0
           /\ EditInvoice_roundoffAmount(t) = 0
           /\ NewInvoice_lineAmount(
                  [product_id |-> "1", quantity |-> Num(2), unit_price |-> t]) = 0
    /\ subtotal \in Int
    /\ grandTotal \in Int

\* C10 witness: "abc" in the discount, roundoff and price fields of a form
\* whose other line gives subtotal 100: the grand total is 100.
C10_Witness ==
    /\ discountValue = <<"a", "b", "c">>
    /\ roundoff = <<"a", "b", "c">>
    /\ Len(lines) = 2
    /\ lines[1] = [product_id |-> "1", quantity |-> Num(1), unit_price |-> <<"a", "b", "c">>]
    /\ lines[2].product_id = "1"
    /\ subtotal = Cents(10000)
    /\ grandTotal = Cents(10000)

\* C19 as claimed: in every reachable form state discountAmount >= 0, whatever
\* the discount field holds and whichever type is chosen, so the grand total
\* never exceeds subtotal + roundoff; on New Invoice and on Edit Invoice.
C19_Original ==
    /\ discountAmount >= 0
    /\ EditInvoice_totals.discountAmount >= 0
    /\ subtotal >= 0 => grandTotal <= subtotal + roundoffAmount
    /\ subtotal >= 0 =>
           EditInvoice_totals.grandTotal <= subtotal + EditInvoice_totals.roundoffAmount

----------------------------------------------------------------------------
(* Part 3: the requests of the pages (src/src/api.ts and the page components) *)

\* JavaScript undefined (JSON.stringify drops a field that holds it).
Undefined == [undefined |-> TRUE]

\* request(path, options): the fetch call it makes.  The headers are
\* Content-Type merged with options.headers; no caller passes headers, so the
\* options carry a method and a body only.
request(path, options) ==
    [url |-> path,
     method |-> options.method,
     headers |-> {[name |-> "Content-Type", value |-> "application/json"]},
     body |-> options.body]

\* Options of a call without a body (fetch's default method for none given).
Get == [method |-> "GET", body |-> Undefined]
Delete == [method |-> "DELETE", body |-> Undefined]
Post(payload) == [method |-> "POST", body |-> Stringify(payload)]
Put(payload) == [method |-> "PUT", body |-> Stringify(payload)]

\* The api object: one fetch call per operation.
api_listProducts == request(<<"products">>, Get)
api_listVendors == request(<<"vendors">>, Get)
api_listCustomers == request(<<"customers">>, Get)
api_listPurchases == request(<<"purchases">>, Get)
api_listInvoices == request(<<"invoices">>, Get)
api_createProduct(body) == request(<<"products">>, Post([product |-> body]))
api_createVendor(body) == request(<<"vendors">>, Post([vendor |-> body]))
api_createCustomer(body) == request(<<"customers">>, Post([customer |-> body]))
api_createPurchase(body) == request(<<"purchases">>, Post([purchase |-> body]))
api_createInvoice(body) == request(<<"invoices">>, Post([invoice |-> body]))
api_updateInvoice(id, body) == request(<<"invoices", id>>, Put([invoice |-> body]))
api_deleteCustomer(id) == request(<<"customers", id>>, Delete)
api_deleteVendor(id) == request(<<"vendors", id>>, Delete)
api_deleteInvoice(id) == request(<<"invoices", id>>, Delete)

\* What is recorded of a fetch call: the call, the operation, and the live
\* state at the moment it is made.
Issued(op, call) ==
    [op |-> op, call |-> call,
     at |-> [token |-> token, currentStore |-> currentStore, lines |-> lines]]

----------------------------------------------------------------------------
(* The submission of the invoice and purchase forms *)

\* l.product_id && l.quantity > 0
IsValidLine(l) == l.product_id # "" /\ ~l.quantity.nan /\ l.quantity.val > 0

\* lines.filter((l) => l.product_id && l.quantity > 0)
validLines(ls) == SelectSeq(ls, IsValidLine)

\* ...map((l) => ({product_id, quantity, unit_price, tax_percent: "0"}))
itemsAttributes(ls) ==
    [i \in 1..Len(validLines(ls)) |->
        [product_id |-> validLines(ls)[i].product_id,
         quantity |-> validLines(ls)[i].quantity,
         unit_price |-> validLines(ls)[i].unit_price,
         tax_percent |-> "0"]]

NewInvoice_canSubmit(ls, customerName, customerPhone) ==
    IF Len(validLines(ls)) = 0 THEN FALSE
    ELSE ~IsBlank(customerName) /\ ~IsBlank(customerPhone)

EditInvoice_canSubmit(ls, customerName, customerPhone) ==
    IF Len(validLines(ls)) = 0 THEN FALSE
    ELSE ~IsBlank(customerName) /\ ~IsBlank(customerPhone)

NewPurchase_canSubmit(vendorId, ls) ==
    IF vendorId = "" THEN FALSE ELSE Len(validLines(ls)) > 0

\* productById.get(id): the product, Null when the map has none.
productById(id) ==
    IF \E p \in Products : p.id = id
    THEN CHOOSE p \in Products : p.id = id
    ELSE Null

\* NewInvoicePage.onCreate, the client-side stock check: whether it stops.
NewInvoice_insufficientStock(ls) ==
    \E i \in 1..Len(ls) :
        /\ ls[i].product_id # ""
        /\ productById(ls[i].product_id) # Null
        /\ ~ls[i].quantity.nan
        /\ ls[i].quantity.val > productById(ls[i].product_id).current_stock

\* x.toFixed(2) of an amount, in hundredths (the amounts formed here have at
\* most two decimals).
toFixed2(x) == x \div (Scale \div 100)

\* trimmed text || undefined
TrimOrUndefined(text) == IF IsBlank(text) THEN Undefined ELSE text

\* currentStore?.id || user?.store?.id
StoreIdOf(s) ==
    IF s.currentStore # Null THEN s.currentStore.id
    ELSE IF UserStore(s.user) # Null THEN s.user.store.id
    ELSE Undefined

\* The body NewInvoicePage.onCreate passes to api.createInvoice.
NewInvoice_body(ls, pg, disc, ro, s) ==
    [customer_name |-> TrimOrUndefined(pg.customerName),
     customer_phone |-> TrimOrUndefined(pg.customerPhone),
     discount_total |-> IF disc > 0 THEN [fixed |-> toFixed2(disc)] ELSE Undefined,
     roundoff |-> IF ro # 0 THEN [fixed |-> toFixed2(ro)] ELSE Undefined,
     store_id |-> StoreIdOf(s),
     invoice_items_attributes |-> itemsAttributes(ls)]

\* The body EditInvoicePage.onUpdate passes to api.updateInvoice.
EditInvoice_body(ls, pg, disc, ro) ==
    [customer_name |-> TrimOrUndefined(pg.customerName),
     customer_phone |-> TrimOrUndefined(pg.customerPhone),
     discount_total |-> IF disc > 0 THEN [fixed |-> toFixed2(disc)] ELSE Undefined,
     roundoff |-> IF ro # 0 THEN [fixed |-> toFixed2(ro)] ELSE Undefined,
     invoice_items_attributes |-> itemsAttributes(ls)]

\* The body NewPurchasePage.createPurchase passes to api.createPurchase.
NewPurchase_body(vendorId, ls) ==
    [vendor_id |-> vendorId,
     purchase_items_attributes |-> itemsAttributes(ls)]

\* parseFloat(x) > 0 (false for NaN)
IsPositive(x) == ~x.nan /\ x.val > 0

\* checkPriceDifferences asking only whether the line's price is the lower one.
NewPurchase_priceDiffers_onlyCheaper(ls) ==
    \E i \in 1..Len(ls) :
        /\ ls[i].product_id # ""
        /\ productById(ls[i].product_id) # Null
        /\ LET product == productById(ls[i].product_id)
               oldPrice == parseFloat(OrTextZero(product.purchase_price))
               newPrice == parseFloat(OrTextZero(ls[i].unit_price))
           IN  /\ product.current_stock > 0
               /\ IsPositive(oldPrice)
               /\ IsPositive(newPrice)
               /\ oldPrice.val - newPrice.val > Scale \div 100

\* checkPriceDifferences: whether some line opens the confirmation (a product
\* in stock whose purchase price differs from the line's by more than 0.01).
NewPurchase_priceDiffers(ls) ==
    \E i \in 1..Len(ls) :
        /\ ls[i].product_id # ""
        /\ productById(ls[i].product_id) # Null
        /\ LET product == productById(ls[i].product_id)
               oldPrice == parseFloat(OrTextZero(product.purchase_price))
               newPrice == parseFloat(OrTextZero(ls[i].unit_price))
           IN  /\ product.current_stock > 0
               /\ IsPositive(oldPrice)
               /\ IsPositive(newPrice)
               /\ (oldPrice.val - newPrice.val > Scale \div 100
                   \/ newPrice.val - oldPrice.val > Scale \div 100)

\* Bound: api requests that may await their response together.
MaxInflight == 2

\* The pages that submit lines.
SubmitViews == {"NewInvoice", "EditInvoice", "NewPurchase"}

\* An authenticated session as login and the store list leave it: user u with
\* token t and the selected store.
LoggedIn(u, t, store) ==
    /\ phase = "mounted"
    /\ user = u
    /\ token = t
    /\ currentStore = store
    /\ availableStores = (IF u.store = Null THEN <<StoreA, StoreB>> ELSE <<u.store>>)
    /\ storage = [k \in StorageKeys |->
                     CASE k = "auth_token" -> t
                       [] k = "auth_user" -> Stringify(u)
                       [] OTHER -> IF store = Null THEN Null ELSE Stringify(store)]
    /\ fetches = EmptyBag
    /\ loginReq = Null
    /\ loginLoading = FALSE
    /\ loginError = ""
    /\ dispatched = <<>>
    /\ last = [op |-> "init"]

\* Texts typed into the customer name and phone fields (the phone lookup
\* starts at ten characters).
CustomerTexts == {<<>>, <<"9", "8">>}
\* Vendors the backend lists.
VendorIds == {"7"}
\* Quantity and price texts typed into the lines of a form being submitted.
SubmitQtyTexts == {<<>>, <<"2">>}
PurchaseQtyTexts == {<<>>}
SubmitPriceTexts == {<<"1", "0", "0">>}
\* Messages of failed create / update requests.
ServerErrors == {"Validation failed"}

\* The line EditInvoicePage loads from the invoice being edited.
LoadedLine == [product_id |-> "1", quantity |-> Num(1), unit_price |-> <<"1", "0", "0">>]

\* A form page right after its data has loaded.
SubmitPage(v) ==
    [kind |-> v,
     customerName |-> IF v = "EditInvoice" THEN <<"9", "8">> ELSE <<>>,
     customerPhone |-> IF v = "EditInvoice" THEN <<"9", "8">> ELSE <<>>,
     vendorId |-> "",
     loading |-> FALSE,
     error |-> Null,
     priceDiffModal |-> Null]

SubmitInit ==
    /\ \/ LoggedIn(Admin, [jwt |-> "t1"], StoreA)
       \/ LoggedIn(Manager, [jwt |-> "t1"], StoreB)
    /\ view \in SubmitViews
    /\ page = SubmitPage(view)
    /\ sent = <<>>
    /\ inflight = EmptyBag
    /\ lines = (IF view = "EditInvoice" THEN <<LoadedLine>> ELSE <<EmptyLine>>)
    /\ discountType = (IF view = "EditInvoice" THEN "amount" ELSE "percent")
    /\ discountValue = <<>>
    /\ roundoff = <<>>

\* A field of the mounted page is set; nothing is sent.
SetPage(pg) ==
    /\ page' = pg
    /\ sent' = <<>>
    /\ UNCHANGED <<view, inflight>>
    /\ UNCHANGED sessionVars
    /\ UNCHANGED formVars

SetCustomerName(text) ==
    /\ view \in {"NewInvoice", "EditInvoice"}
    /\ SetPage([page EXCEPT !.customerName = text])

SetCustomerPhone(text) ==
    /\ view \in {"NewInvoice", "EditInvoice"}
    /\ SetPage([page EXCEPT !.customerPhone = text])

\* A click on a vendor of the dropdown.
SelectVendor(v) ==
    /\ view = "NewPurchase"
    /\ SetPage([page EXCEPT !.vendorId = v])

\* Typing in the vendor search box: if (vendorId) setVendorId("")
ClearVendor ==
    /\ view = "NewPurchase"
    /\ page.vendorId # ""
    /\ SetPage([page EXCEPT !.vendorId = ""])

\* NewPurchasePage: a click on a product of the dropdown of line idx.
PurchaseSelectProduct(idx, p) ==
    /\ view = "NewPurchase"
    /\ idx \in 1..Len(lines)
    /\ lines' = updateLine(lines, idx,
                    [product_id |-> p.id, unit_price |-> p.purchase_price])
    /\ UNCHANGED <<discountType, discountValue, roundoff>>
    /\ UNCHANGED sessionVars
    /\ NoPageChange

\* A handler makes one api call and awaits it.
Send(op, call, pg) ==
    /\ BagCardinality(inflight) < MaxInflight
    /\ sent' = <<Issued(op, call)>>
    /\ inflight' = inflight (+) SetToBag({op})
    /\ page' = pg
    /\ UNCHANGED view
    /\ UNCHANGED sessionVars
    /\ UNCHANGED formVars

\* NewInvoicePage.onCreate (the button is disabled unless canSubmit && !loading).
NewInvoice_onCreate ==
    /\ view = "NewInvoice"
    /\ ~page.loading
    /\ NewInvoice_canSubmit(lines, page.customerName, page.customerPhone)
    /\ IF NewInvoice_insufficientStock(lines)
       THEN /\ page' = [page EXCEPT !.error = "Insufficient stock", !.loading = FALSE]
            /\ sent' = <<>>
            /\ UNCHANGED <<view, inflight>>
            /\ UNCHANGED sessionVars
            /\ UNCHANGED formVars
       ELSE Send("createInvoice",
                 api_createInvoice(NewInvoice_body(lines, page, discountAmount,
                                                   roundoffAmount, Session)),
                 [page EXCEPT !.error = Null, !.loading = TRUE])

\* EditInvoicePage.onUpdate
EditInvoice_onUpdate ==
    /\ view = "EditInvoice"
    /\ ~page.loading
    /\ EditInvoice_canSubmit(lines, page.customerName, page.customerPhone)
    /\ Send("updateInvoice",
            api_updateInvoice("5", EditInvoice_body(lines, page,
                                       EditInvoice_totals.discountAmount,
                                       EditInvoice_totals.roundoffAmount)),
            [page EXCEPT !.error = Null, !.loading = TRUE])

\* What the functions of one render of NewPurchasePage read.
PurchaseClosure ==
    [canSubmit |-> NewPurchase_canSubmit(page.vendorId, lines),
     vendorId |-> page.vendorId,
     lines |-> lines]

\* NewPurchasePage.createPurchase as created by the render with closure c.
createPurchase(c, pg) ==
    IF ~c.canSubmit \/ c.vendorId = ""
    THEN /\ page' = pg
         /\ sent' = <<>>
         /\ UNCHANGED <<view, inflight>>
         /\ UNCHANGED sessionVars
         /\ UNCHANGED formVars
    ELSE Send("createPurchase",
              api_createPurchase(NewPurchase_body(c.vendorId, c.lines)),
              [pg EXCEPT !.error = Null, !.loading = TRUE])

\* NewPurchasePage.onCreate: the confirmation opens when a price differs,
\* holding the createPurchase of this render; otherwise the purchase is created.
NewPurchase_onCreate ==
    /\ view = "NewPurchase"
    /\ ~page.loading
    /\ NewPurchase_canSubmit(page.vendorId, lines)
    /\ IF NewPurchase_priceDiffers(lines)
       THEN /\ page' = [page EXCEPT !.priceDiffModal = [onConfirm |-> PurchaseClosure]]
            /\ sent' = <<>>
            /\ UNCHANGED <<view, inflight>>
            /\ UNCHANGED sessionVars
            /\ UNCHANGED formVars
       ELSE createPurchase(PurchaseClosure, page)

\* "Confirm & Create": setPriceDiffModal(null); createPurchase()
PriceDiffConfirm ==
    /\ view = "NewPurchase"
    /\ page.priceDiffModal # Null
    /\ createPurchase(page.priceDiffModal.onConfirm,
                      [page EXCEPT !.priceDiffModal = Null])

\* "Cancel": setPriceDiffModal(null)
PriceDiffCancel ==
    /\ view = "NewPurchase"
    /\ page.priceDiffModal # Null
    /\ SetPage([page EXCEPT !.priceDiffModal = Null])

\* The request r is answered with success: nav(...) leaves the page.
SubmitResponseOk(r) ==
    /\ BagIn(r, inflight)
    /\ inflight' = inflight (-) SetToBag({r})
    /\ view' = "left"
    /\ page' = [kind |-> "none"]
    /\ sent' = <<>>
    /\ UNCHANGED sessionVars
    /\ UNCHANGED formVars

\* The request r fails: the message is shown and loading ends (nothing
\* happens when the page has been left).
SubmitResponseFail(r, message) ==
    /\ BagIn(r, inflight)
    /\ inflight' = inflight (-) SetToBag({r})
    /\ page' = (IF view \in SubmitViews
                THEN [page EXCEPT !.error = message, !.loading = FALSE]
                ELSE page)
    /\ sent' = <<>>
    /\ UNCHANGED view
    /\ UNCHANGED sessionVars
    /\ UNCHANGED formVars

SubmitNext ==
    \/ \E idx \in 1..Len(lines), p \in Products :
           view \in {"NewInvoice", "EditInvoice"} /\ SelectProduct(idx, p)
    \/ \E idx \in 1..Len(lines), p \in Products : PurchaseSelectProduct(idx, p)
    \/ \E idx \in 1..Len(lines) : view \in SubmitViews /\ ClearProduct(idx)
    \/ \E idx \in 1..Len(lines), t \in SubmitQtyTexts :
           view \in {"NewInvoice", "EditInvoice"} /\ SetQuantity(idx, t)
    \/ \E idx \in 1..Len(lines), t \in PurchaseQtyTexts :
           view = "NewPurchase" /\ SetQuantity(idx, t)
    \/ \E idx \in 1..Len(lines), t \in SubmitPriceTexts :
           view = "NewPurchase" /\ SetUnitPrice(idx, t)
    \/ view \in SubmitViews /\ AddLine
    \/ \E idx \in 1..Len(lines) : view \in SubmitViews /\ RemoveLine(idx)
    \/ \E t \in CustomerTexts : SetCustomerName(t)
    \/ \E t \in CustomerTexts : SetCustomerPhone(t)
    \/ \E v \in VendorIds : SelectVendor(v)
    \/ ClearVendor
    \/ NewInvoice_onCreate
    \/ EditInvoice_onUpdate
    \/ NewPurchase_onCreate
    \/ PriceDiffConfirm
    \/ PriceDiffCancel
    \/ \E r \in BagToSet(inflight) : SubmitResponseOk(r)
    \/ \E r \in BagToSet(inflight), m \in ServerErrors : SubmitResponseFail(r, m)

SubmitSpec == SubmitInit /\ [][SubmitNext]_vars

----------------------------------------------------------------------------
(* Claims about the requests of the pages *)

\* The line items a create-invoice, update-invoice or create-purchase call carries.
C11_ItemsOf(e) ==
    IF e.op = "createPurchase"
    THEN Parse(e.call.body).purchase.purchase_items_attributes
    ELSE Parse(e.call.body).invoice.invoice_items_attributes

C11_SubmitOps == {"createInvoice", "updateInvoice", "createPurchase"}

\* Every item of the call has a product reference and a quantity > 0, and
\* there is at least one.
C11_ItemsValid(e) ==
    /\ Len(C11_ItemsOf(e)) > 0
    /\ \A i \in 1..Len(C11_ItemsOf(e)) :
           /\ C11_ItemsOf(e)[i].product_id # ""
           /\ ~C11_ItemsOf(e)[i].quantity.nan
           /\ C11_ItemsOf(e)[i].quantity.val > 0

\* C11 as claimed: no create-invoice, update-invoice or create-purchase request
\* is sent while the form has zero valid lines, and every line item of a sent
\* request has a product reference and a quantity > 0, on every path to
\* submission including the price-difference confirmation.
C11_Original ==
    \A k \in 1..Len(sent) :
        sent[k].op \in C11_SubmitOps =>
            /\ Len(validLines(sent[k].at.lines)) > 0
            /\ C11_ItemsValid(sent[k])

\* The part of C11 about the items alone.
C11_SentItemsValid ==
    \A k \in 1..Len(sent) : sent[k].op \in C11_SubmitOps => C11_ItemsValid(sent[k])

----------------------------------------------------------------------------
(* Part 4: the list pages, their reload when the store changes and their    *)
(* single-item delete flows (CustomersPage, VendorsPage, ProductsPage,      *)
(* InvoicesPage, PurchasesPage, UsersPage, InvoiceDetailsPage).             *)
(* Specifications: ListSpec, and ListFairSpec with the scheduling of        *)
(* effects and responses.                                                   *)

\* `Bearer ${token}`
Bearer(t) == "Bearer " \o t.jwt

\* fetchAvailableStores, lines 82-87: the fetch call made from the closure c.
fetchAvailableStoresRequest(c) ==
    [url |-> <<"stores", "available">>,
     method |-> "GET",
     headers |-> {[name |-> "Authorization", value |-> Bearer(c.token)],
                  [name |-> "Content-Type", value |-> "application/json"]},
     body |-> Undefined]

api_getInvoice(id) == request(<<"invoices", id>>, Get)
\* The users section of the api object, as UsersPage calls it.
api_listUsers == request(<<"users">>, Get)
api_deleteUser(id) == request(<<"users", id>>, Delete)

\* A JavaScript string held in a state that may hold null as well.
Str(s) == [text |-> s]

\* The ways a request fails: fetch rejects (transport), or the response is
\* not ok; its body is then parsed into data (Null for an empty body), unless
\* it is not JSON (malformed), in which case JSON.parse throws.
Failures ==
    {[transport |-> TRUE],
     [status |-> "422", data |-> [error |-> "Not allowed for this store"]],
     [status |-> "404", data |-> [message |-> "Not found"]],
     [status |-> "500", data |-> Null],
     [status |-> "502", malformed |-> TRUE]}

\* data?.error, data?.message: "" stands for a missing or empty field (falsy).
FieldOf(data, f) == IF data # Null /\ f \in DOMAIN data THEN data[f] ELSE ""

\* Mutant of requestError: the body of a failed response is ignored.
requestError_ignoresBody(failure) ==
    IF "transport" \in DOMAIN failure
    THEN Str("Failed to fetch")
    ELSE Str("Request failed (" \o failure.status \o ")")

\* request, lines 4 and 12-18: the message of the Error a failed request
\* throws: fetch's own TypeError when the transport fails, JSON.parse's
\* SyntaxError when the body is not JSON, else the Error built from the body.
requestError(failure) ==
    IF "transport" \in DOMAIN failure
    THEN Str("Failed to fetch")
    ELSE IF "malformed" \in DOMAIN failure
    THEN Str("Unexpected token < in JSON at position 0")
    ELSE IF FieldOf(failure.data, "error") # ""
    THEN Str(FieldOf(failure.data, "error"))
    ELSE IF FieldOf(failure.data, "message") # ""
    THEN Str(FieldOf(failure.data, "message"))
    ELSE Str("Request failed (" \o failure.status \o ")")

\* The pages with a list, and all the pages of this part.
ListViews == {"Customers", "Vendors", "Products", "Invoices", "Purchases"}
TableDeleteViews == {"Customers", "Vendors", "Users"}
PageViews == ListViews \cup {"Users", "InvoiceDetails"}

\* What the backend answers to a list request, and to GET /invoices/5.
ItemLists == {<<>>, <<[id |-> Num(1), name |-> "a"]>>}
VendorList == <<[id |-> "7", name |-> "v"]>>
TheInvoice == [id |-> "5", invoice_no |-> "INV-5"]

\* useState initial values of the page v; effect is React's record of the
\* dependencies the effect last ran with (Null: it has not run).
InitialPage(v) ==
    CASE v \in {"Customers", "Vendors"} ->
             [kind |-> v, items |-> <<>>, loading |-> FALSE, error |-> Null,
              deletingId |-> Null, showDeleteModal |-> FALSE,
              deleteTarget |-> Null, deleteError |-> Null, effect |-> Null]
      [] v \in {"Products", "Purchases"} ->
             [kind |-> v, items |-> <<>>, vendors |-> <<>>, loading |-> FALSE,
              error |-> Null, effect |-> Null]
      [] v = "Invoices" ->
             [kind |-> v, items |-> <<>>, loading |-> FALSE, error |-> Null,
              effect |-> Null]
      [] v = "Users" ->
             [kind |-> v, users |-> <<>>, loading |-> TRUE, error |-> Str(""),
              showDeleteModal |-> FALSE, deleteTarget |-> Null,
              deleteError |-> Null, deletingId |-> Null, effect |-> Null]
      [] v = "InvoiceDetails" ->
             [kind |-> v, invoice |-> Null, loading |-> TRUE, deleting |-> FALSE,
              error |-> Null, showDeleteModal |-> FALSE, deleteError |-> Null,
              effect |-> Null]

\* The dependency array of the page's loading effect, as a sequence:
\* [currentStore?.id] (<<>> stands for undefined), [isOrgAdmin], [id], [].
EffectDeps(v, s) ==
    CASE v \in {"Customers", "Vendors"} ->
             <<IF s.currentStore = Null THEN <<>> ELSE <<s.currentStore.id>> >>
      [] v = "Users" -> <<s.user # Null /\ s.user.role = "org_admin">>
      [] v = "InvoiceDetails" -> <<TheInvoice.id>>
      [] OTHER -> <<>>

\* React runs the effect after the first render and after a render in which
\* a dependency differs from the last run's.
EffectPending ==
    /\ view \in PageViews
    /\ IF page.effect = Null
       THEN TRUE
       ELSE page.effect.deps # EffectDeps(view, Session)

\* The fetch calls load() makes.
loadCalls(v) ==
    CASE v = "Customers" -> <<Issued("listCustomers", api_listCustomers)>>
      [] v = "Vendors" -> <<Issued("listVendors", api_listVendors)>>
      [] v = "Products" -> <<Issued("listProducts", api_listProducts),
                             Issued("listVendors", api_listVendors)>>
      [] v = "Invoices" -> <<Issued("listInvoices", api_listInvoices)>>
      [] v = "Purchases" -> <<Issued("listPurchases", api_listPurchases),
                              Issued("listVendors", api_listVendors)>>
      [] v = "Users" -> <<Issued("listUsers", api_listUsers)>>
      [] v = "InvoiceDetails" -> <<Issued("getInvoice", api_getInvoice(TheInvoice.id))>>

\* load() up to its await.
loadStart(pg) ==
    IF pg.kind = "Users"
    THEN [pg EXCEPT !.loading = TRUE]
    ELSE [pg EXCEPT !.loading = TRUE, !.error = Null]

\* load() after its await, on success and on failure.
loadOk(pg, data) ==
    CASE pg.kind = "Users" ->
             [pg EXCEPT !.users = data, !.error = Str(""), !.loading = FALSE]
      [] pg.kind = "InvoiceDetails" ->
             [pg EXCEPT !.invoice = TheInvoice, !.loading = FALSE]
      [] pg.kind \in {"Products", "Purchases"} ->
             [pg EXCEPT !.items = data, !.vendors = VendorList, !.loading = FALSE]
      [] OTHER -> [pg EXCEPT !.items = data, !.loading = FALSE]

loadFail(pg, failure) ==
    [pg EXCEPT !.error = requestError(failure), !.loading = FALSE]

\* The rows the page shows, and whether a delete is marked as in progress.
rowsOf(pg) == IF pg.kind = "Users" THEN pg.users ELSE pg.items
isDeleting(pg) ==
    IF pg.kind = "InvoiceDetails" THEN pg.deleting ELSE pg.deletingId # Null

\* handleDeleteConfirm up to its await.
deleteStart(pg) ==
    IF pg.kind = "InvoiceDetails"
    THEN [pg EXCEPT !.deleting = TRUE, !.deleteError = Null]
    ELSE [pg EXCEPT !.deletingId = pg.deleteTarget.id, !.deleteError = Null]

deleteCall(pg) ==
    CASE pg.kind = "Customers" ->
             Issued("deleteCustomer", api_deleteCustomer(pg.deleteTarget.id))
      [] pg.kind = "Vendors" ->
             Issued("deleteVendor", api_deleteVendor(pg.deleteTarget.id))
      [] pg.kind = "Users" ->
             Issued("deleteUser", api_deleteUser(pg.deleteTarget.id))
      [] pg.kind = "InvoiceDetails" ->
             Issued("deleteInvoice", api_deleteInvoice(pg.invoice.id))

\* handleDeleteConfirm after a successful delete, up to its await of load().
deleteOk(pg) ==
    loadStart([pg EXCEPT !.showDeleteModal = FALSE,
                         !.deleteTarget = Null,
                         !.deleteError = Null])

\* The finally block of handleDeleteConfirm.
deleteFinally(pg) ==
    IF pg.kind = "InvoiceDetails"
    THEN [pg EXCEPT !.deleting = FALSE]
    ELSE [pg EXCEPT !.deletingId = Null]

\* Mutant of deleteFail: the confirmation is dismissed when the delete fails.
deleteFail_dismisses(pg, failure) ==
    deleteFinally([pg EXCEPT !.deleteError = requestError(failure),
                             !.showDeleteModal = FALSE])

\* handleDeleteConfirm when the delete fails: the catch and the finally block.
deleteFail(pg, failure) ==
    deleteFinally([pg EXCEPT !.deleteError = requestError(failure)])

\* onCancel of the confirmation.
deleteCancel(pg) ==
    IF pg.kind = "InvoiceDetails"
    THEN [pg EXCEPT !.showDeleteModal = FALSE, !.deleteError = Null]
    ELSE [pg EXCEPT !.showDeleteModal = FALSE, !.deleteTarget = Null,
                    !.deleteError = Null]

----------------------------------------------------------------------------
(* Actions of the list pages *)

\* What awaits a response: load() called by the effect ("load"),
\* handleDeleteConfirm awaiting the delete ("delete"), and handleDeleteConfirm
\* awaiting the load() it calls after a successful delete ("reload").
Awaiting(what) == [await |-> what]

\* A step of a page handler: the session keeps its state, the handler is
\* recorded, and no storeChanged event is dispatched.
PageStep(op) ==
    /\ phase = "mounted"
    /\ view \in PageViews
    /\ last' = op
    /\ dispatched' = <<>>
    /\ UNCHANGED <<phase, user, token, currentStore, availableStores, storage,
                   fetches, loginReq, loginLoading, loginError>>
    /\ UNCHANGED formVars

\* A step of an event handler or of the continuation of an await: React runs
\* a pending effect before the next event is handled, so the step waits for it.
HandlerStep(op) ==
    /\ ~EffectPending
    /\ PageStep(op)

\* A session as the mount effect leaves it after a reload: user u with token
\* t and the persisted store, the store list not fetched yet.
Rehydrated(u, t, store) ==
    /\ phase = "mounted"
    /\ user = u
    /\ token = t
    /\ currentStore = store
    /\ availableStores = <<>>
    /\ storage = [k \in StorageKeys |->
                     CASE k = "auth_token" -> t
                       [] k = "auth_user" -> Stringify(u)
                       [] OTHER -> IF store = Null THEN Null ELSE Stringify(store)]
    /\ fetches = SetToBag({[token |-> t, user |-> u, currentStore |-> store]})
    /\ loginReq = Null
    /\ loginLoading = FALSE
    /\ loginError = ""
    /\ dispatched = <<>>
    /\ last = [op |-> "mount"]

ListInit ==
    /\ \/ Rehydrated(Admin, [jwt |-> "t1"], StoreA)
       \/ Rehydrated(Manager, [jwt |-> "t1"], StoreB)
    /\ view \in PageViews
    /\ page = InitialPage(view)
    /\ sent = <<>>
    /\ inflight = EmptyBag
    /\ FormIdle

\* The route changes to the page v: the page that was mounted is unmounted
\* (the responses its handlers await change nothing any more) and v mounts.
MountPage(v) ==
    /\ view' = v
    /\ page' = InitialPage(v)
    /\ inflight' = EmptyBag
    /\ sent' = <<>>

\* A link of the layout is followed.
Navigate(v) ==
    /\ v # view
    /\ HandlerStep([op |-> "navigate", to |-> v])
    /\ MountPage(v)

\* The loading effect of the mounted page runs.
PageEffect ==
    /\ EffectPending
    /\ PageStep([op |-> "effect"])
    /\ UNCHANGED view
    /\ IF view = "Users" /\ ~isOrgAdmin
       THEN /\ page' = [page EXCEPT
                           !.error = Str("Only organization admins can manage users"),
                           !.loading = FALSE,
                           !.effect = [deps |-> EffectDeps(view, Session)]]
            /\ sent' = <<>>
            /\ UNCHANGED inflight
       ELSE /\ page' = [loadStart(page) EXCEPT
                           !.effect = [deps |-> EffectDeps(view, Session)]]
            /\ sent' = loadCalls(view)
            /\ inflight' = inflight (+) SetToBag({Awaiting("load")})

\* The finally block of handleDeleteConfirm runs once the load() it awaited
\* has settled.
afterLoad(w, pg) == IF w.await = "reload" THEN deleteFinally(pg) ELSE pg

\* The requests of a load() are answered with success.
LoadResponseOk(w, data) ==
    /\ BagIn(w, inflight)
    /\ w.await \in {"load", "reload"}
    /\ HandlerStep([op |-> "load_ok", await |-> w.await])
    /\ page' = afterLoad(w, loadOk(page, data))
    /\ inflight' = inflight (-) SetToBag({w})
    /\ sent' = <<>>
    /\ UNCHANGED view

\* A request of a load() fails: load() catches the error.
LoadResponseFail(w, failure) ==
    /\ BagIn(w, inflight)
    /\ w.await \in {"load", "reload"}
    /\ HandlerStep([op |-> "load_fail", await |-> w.await, failure |-> failure])
    /\ page' = afterLoad(w, loadFail(page, failure))
    /\ inflight' = inflight (-) SetToBag({w})
    /\ sent' = <<>>
    /\ UNCHANGED view

\* The delete button of a row (disabled while that row is being deleted).
handleDeleteClick(i) ==
    /\ view \in TableDeleteViews
    /\ ~page.showDeleteModal
    /\ i \in 1..Len(rowsOf(page))
    /\ IF page.deletingId = Null THEN TRUE ELSE page.deletingId # rowsOf(page)[i].id
    /\ HandlerStep([op |-> "delete_click"])
    /\ page' = [page EXCEPT !.deleteTarget = rowsOf(page)[i],
                            !.showDeleteModal = TRUE]
    /\ sent' = <<>>
    /\ UNCHANGED <<view, inflight>>

\* InvoiceDetailsPage: the Delete button, rendered once the invoice is shown.
InvoiceDeleteClick ==
    /\ view = "InvoiceDetails"
    /\ ~page.loading
    /\ page.error = Null
    /\ page.invoice # Null
    /\ ~page.showDeleteModal
    /\ HandlerStep([op |-> "delete_click"])
    /\ page' = [page EXCEPT !.showDeleteModal = TRUE]
    /\ sent' = <<>>
    /\ UNCHANGED <<view, inflight>>

\* Whether handleDeleteConfirm passes its first line.
hasDeleteTarget(pg) ==
    IF pg.kind = "InvoiceDetails" THEN pg.invoice # Null ELSE pg.deleteTarget # Null

\* The confirmation's Confirm button: handleDeleteConfirm up to its await.
\* (The button is taken to answer whenever the confirmation is open.)
handleDeleteConfirm ==
    /\ view \in TableDeleteViews \cup {"InvoiceDetails"}
    /\ page.showDeleteModal
    /\ hasDeleteTarget(page)
    /\ BagCardinality(inflight) < MaxInflight
    /\ HandlerStep([op |-> "delete_confirm"])
    /\ page' = deleteStart(page)
    /\ sent' = <<deleteCall(page)>>
    /\ inflight' = inflight (+) SetToBag({Awaiting("delete")})
    /\ UNCHANGED view

\* The confirmation's Cancel button.
DeleteCancel ==
    /\ view \in TableDeleteViews \cup {"InvoiceDetails"}
    /\ page.showDeleteModal
    /\ HandlerStep([op |-> "delete_cancel"])
    /\ page' = deleteCancel(page)
    /\ sent' = <<>>
    /\ UNCHANGED <<view, inflight>>

\* The delete request is answered with success: the table pages close the
\* confirmation and call load(); InvoiceDetailsPage navigates to /invoices.
DeleteResponseOk ==
    /\ BagIn(Awaiting("delete"), inflight)
    /\ HandlerStep([op |-> "delete_ok"])
    /\ IF view = "InvoiceDetails"
       THEN MountPage("Invoices")
       ELSE /\ page' = deleteOk(page)
            /\ sent' = loadCalls(view)
            /\ inflight' = (inflight (-) SetToBag({Awaiting("delete")}))
                               (+) SetToBag({Awaiting("reload")})
            /\ UNCHANGED view

\* The delete request fails.
DeleteResponseFail(failure) ==
    /\ BagIn(Awaiting("delete"), inflight)
    /\ HandlerStep([op |-> "delete_fail", failure |-> failure])
    /\ page' = deleteFail(page, failure)
    /\ sent' = <<>>
    /\ inflight' = inflight (-) SetToBag({Awaiting("delete")})
    /\ UNCHANGED view

ListNext ==
    \/ PageEffect
    \/ \E v \in PageViews : Navigate(v)
    \/ \E w \in BagToSet(inflight), d \in ItemLists : LoadResponseOk(w, d)
    \/ \E w \in BagToSet(inflight), f \in Failures : LoadResponseFail(w, f)
    \/ \E i \in 1..1 : handleDeleteClick(i)
    \/ InvoiceDeleteClick
    \/ handleDeleteConfirm
    \/ DeleteCancel
    \/ DeleteResponseOk
    \/ \E f \in Failures : DeleteResponseFail(f)
    \/ \E i \in 1..2 :
           /\ ~EffectPending
           /\ BagCardinality(inflight) < MaxInflight
           /\ StoreSelectorClick(i)
    \/ \E c \in BagToSet(fetches), l \in StoreLists :
           ~EffectPending /\ FetchResponseOk(c, l)
    \/ \E c \in BagToSet(fetches) : ~EffectPending /\ FetchResponseFail(c)

ListSpec == ListInit /\ [][ListNext]_vars

\* The scheduling of React and of the network: a pending effect runs, and
\* every request is answered.  What the user does is not scheduled.
ListFairness ==
    /\ WF_vars(PageEffect)
    /\ WF_vars(\E w \in BagToSet(inflight), d \in ItemLists : LoadResponseOk(w, d))
    /\ WF_vars(DeleteResponseOk)
    /\ WF_vars(\E c \in BagToSet(fetches), l \in StoreLists :
                   ~EffectPending /\ FetchResponseOk(c, l))

ListFairSpec == ListSpec /\ ListFairness

----------------------------------------------------------------------------
(* Claims about the requests of the list pages *)

\* The call carries Authorization: Bearer <t>.
C12_HasBearer(call, t) ==
    [name |-> "Authorization", value |-> Bearer(t)] \in call.headers

\* C12 as claimed: every request sent while the session is authenticated,
\* an api.* call as well as the request of fetchAvailableStores, carries the
\* header Authorization: Bearer <token> with the session's token.
C12_Original ==
    /\ \A k \in 1..Len(sent) :
           sent[k].at.token # Null => C12_HasBearer(sent[k].call, sent[k].at.token)
    /\ \A c \in BagToSet(fetches) :
           C12_HasBearer(fetchAvailableStoresRequest(c), c.token)

\* The part of C12 that holds: the request of fetchAvailableStores carries
\* the token of the render that issued it.
C12_StoresRequestHasBearer ==
    \A c \in BagToSet(fetches) :
        C12_HasBearer(fetchAvailableStoresRequest(c), c.token)

\* The list and create operations the store scopes.
C13_ScopedOps ==
    {"listCustomers", "listVendors", "listProducts", "listInvoices", "listPurchases",
     "createCustomer", "createVendor", "createProduct", "createInvoice", "createPurchase"}

\* The call carries the store id: as the store_id of the resource in its
\* body (the URLs of the api object have no store parameter, and the only
\* header is Content-Type).
C13_CarriesStore(call, id) ==
    /\ call.body # Undefined
    /\ \E r \in DOMAIN Parse(call.body) :
           /\ "store_id" \in DOMAIN Parse(call.body)[r]
           /\ Parse(call.body)[r].store_id = id

\* C13 as claimed: every list request and every create request issued while
\* a store is selected carries the id of the store that is currentStore at
\* the moment the request is issued.
C13_Original ==
    \A k \in 1..Len(sent) :
        (sent[k].op \in C13_ScopedOps /\ sent[k].at.currentStore # Null) =>
            C13_CarriesStore(sent[k].call, sent[k].at.currentStore.id)

\* The part of C13 that holds: a create-invoice request carries the id of the
\* selected store.
C13_InvoiceCarriesStore ==
    \A k \in 1..Len(sent) :
        (sent[k].op = "createInvoice" /\ sent[k].at.currentStore # Null) =>
            C13_CarriesStore(sent[k].call, sent[k].at.currentStore.id)

\* The handler that ran last was setCurrentStore, and the store it selected
\* has another id than the store selected before.
C14_StoreChanged ==
    /\ dispatched # <<>>
    /\ last.op \in {"select", "default", "set"}
    /\ IF last.before = Null THEN last.store # Null
       ELSE IF last.store = Null THEN TRUE
       ELSE last.store.id # last.before.id

\* The handler that ran last was the loading effect, and it issued the list
\* request(s) of the mounted view.
C14_Reissued ==
    /\ last.op = "effect"
    /\ view \in ListViews
    /\ sent = loadCalls(view)

\* The user has left the view.
C14_Left == last.op = "navigate"

\* C14 as claimed: after setCurrentStore changes the selected store to a
\* store with a different id, every list view mounted at that moment
\* (customers, vendors, products, invoices, purchases) eventually issues a
\* new list request, without a page reload (unless the user leaves the view
\* first).
C14_Original ==
    \A v \in ListViews :
        (C14_StoreChanged /\ view = v) ~> (C14_Reissued \/ C14_Left)

\* The views that do reload: the loading effect of Customers and Vendors
\* depends on currentStore?.id, so it is pending right after the change, once
\* the effect of the mount has run.
C14_EffectPendingAfterChange ==
    (C14_StoreChanged /\ view \in {"Customers", "Vendors"} /\ page.effect # Null)
        => EffectPending

\* The views that do not: on Products, Invoices and Purchases no effect is
\* pending after the change.
C14_NoEffectAfterChange ==
    (C14_StoreChanged /\ view \in {"Products", "Invoices", "Purchases"}
         /\ page.effect # Null)
        => ~EffectPending

----------------------------------------------------------------------------
(* Claims about the delete flows and about failed requests *)

\* The delete flows of the claim.
C15_DeleteViews == {"Customers", "Vendors", "Users", "InvoiceDetails"}

\* What is being deleted, and the data the page shows.
C15_Target(pg) == IF pg.kind = "InvoiceDetails" THEN pg.invoice ELSE pg.deleteTarget
C15_Shown(pg) == IF pg.kind = "InvoiceDetails" THEN pg.invoice ELSE rowsOf(pg)

\* The error text of the server's response, "" when it carries none.
C15_ServerError(failure) ==
    IF "data" \in DOMAIN failure THEN FieldOf(failure.data, "error") ELSE ""

\* C15: in the single-item delete flows (customers, vendors, users, invoice
\* details) the step that handles a failed delete request leaves the
\* confirmation as it is (open, with the same target), shows the message of
\* the failure in it (the server's error text when the response carries
\* one), neither reloads nor changes the data shown, and clears the
\* in-progress marker; the delete flow closes the confirmation and reloads
\* the list only in the step that handles a successful delete (the only
\* other way the confirmation closes is its Cancel button).
C15_FailedDeleteKeepsConfirmation ==
    [][/\ last'.op = "delete_fail" =>
              /\ view' = view
              /\ view \in C15_DeleteViews
              /\ page'.showDeleteModal = page.showDeleteModal
              /\ C15_Target(page') = C15_Target(page)
              /\ page'.deleteError = requestError(last'.failure)
              /\ C15_ServerError(last'.failure) # "" =>
                     page'.deleteError = Str(C15_ServerError(last'.failure))
              /\ C15_Shown(page') = C15_Shown(page)
              /\ page'.loading = page.loading
              /\ sent' = <<>>
              /\ ~isDeleting(page')
       /\ (view \in C15_DeleteViews /\ view' = view
               /\ page.showDeleteModal /\ ~page'.showDeleteModal) =>
              last'.op \in {"delete_ok", "delete_cancel"}
       /\ last'.op \in {"delete_click", "delete_confirm", "delete_cancel"} =>
              \A k \in 1..Len(sent') : sent'[k] \notin
                  {loadCalls(view)[j] : j \in 1..Len(loadCalls(view))}
       /\ (last'.op = "delete_ok" /\ view' = view) =>
              /\ ~page'.showDeleteModal
              /\ sent' = loadCalls(view)
      ]_vars

\* A failed delete of a customer has been handled: the confirmation is open
\* on the same customer with the server's message, the row is still listed
\* and nothing is marked as being deleted.
C15_Witness ==
    /\ view = "Customers"
    /\ last.op = "delete_fail"
    /\ page.showDeleteModal
    /\ page.deleteTarget = [id |-> Num(1), name |-> "a"]
    /\ page.deleteError = Str("Not allowed for this store")
    /\ page.items = <<[id |-> Num(1), name |-> "a"]>>
    /\ page.deletingId = Null
    /\ sent = <<>>

\* The same on the invoice's own page.
C15_WitnessInvoice ==
    /\ view = "InvoiceDetails"
    /\ last.op = "delete_fail"
    /\ page.showDeleteModal
    /\ page.invoice = TheInvoice
    /\ page.deleteError = Str("Not allowed for this store")
    /\ ~page.deleting

\* The error and the message text of the server's response, "" when the
\* response carries none.
C17_ServerMessage(failure) ==
    IF "data" \in DOMAIN failure
    THEN IF FieldOf(failure.data, "error") # ""
         THEN FieldOf(failure.data, "error")
         ELSE FieldOf(failure.data, "message")
    ELSE ""

\* The step handles the failure of an api.* request of the mounted page.
C17_ApiFailed == last'.op \in {"load_fail", "delete_fail"} /\ inflight' # inflight
\* The step handles the failure of the request of fetchAvailableStores.
C17_StoresFailed == last'.op = "fetch_fail" /\ fetches' # fetches

\* The message the step has delivered to the page.
C17_Shown == IF last'.op = "delete_fail" THEN page'.deleteError ELSE page'.error

\* No request is made in the step, and none that was made is made again.
C17_NothingSent ==
    /\ sent' = <<>>
    /\ BagCardinality(inflight') <= BagCardinality(inflight)
    /\ BagCardinality(fetches') <= BagCardinality(fetches)

\* Requests are made by the loading effect (the page mounts, or an input
\* of the view changes), by the user's Confirm, and by the reload after a
\* successful delete; each makes a request once.
C17_SentOnce ==
    sent' # <<>> =>
        /\ last'.op \in {"effect", "delete_confirm", "delete_ok"}
        /\ \A j, k \in 1..Len(sent') : j # k => sent'[j].op # sent'[k].op

C17_WitnessStores ==
    /\ last.op = "fetch_fail"
    /\ fetches = EmptyBag
    /\ availableStores = <<>>
    /\ view = "Invoices"
    /\ page.error = Null
    /\ loginError = ""

----------------------------------------------------------------------------
(* Part 5: the forms with local validation: New User, Edit User, the        *)
(* onboarding wizard, New Customer and Edit Customer.                       *)
(* Specification: ValidationSpec.                                           *)

FormViews == {"NewUser", "EditUser", "Onboarding", "NewCustomer", "EditCustomer"}

\* What a text field and a password field may hold (sequences of characters).
FieldTexts == {<<>>, <<" ">>, <<"a">>}
ShortPassword == <<"p", "w">>
LongPassword == <<"p", "a", "s", "s", "w", "o", "r", "d">>
PasswordTexts == {<<>>, ShortPassword, LongPassword}
RoleOptions == {"store_worker", "store_manager", "org_admin"}
StoreOptions == {"", "1"}

\* text.trim()
trim(text) ==
    LET solid == {i \in 1..Len(text) : ~IsSpace(text[i])}
    IN  IF solid = {} THEN <<>>
        ELSE SubSeq(text,
                    CHOOSE i \in solid : \A j \in solid : i <= j,
                    CHOOSE i \in solid : \A j \in solid : j <= i)

\* The fields of formData that handleSubmit reads before it calls the api
\* (name, email, phone and active only travel in the body).
UserForms ==
    [password : PasswordTexts, confirmPassword : PasswordTexts,
     role : RoleOptions, store_id : StoreOptions]
EmptyUserForm ==
    [password |-> <<>>, confirmPassword |-> <<>>, role |-> "store_worker",
     store_id |-> ""]
\* loadUser, lines 38-47: the form as filled from the loaded user.
LoadedUserForms == {f \in UserForms : f.password = <<>> /\ f.confirmPassword = <<>>}

\* The users section of the api object, as the user forms call it.
api_getUser(id) == request(<<"users", id>>, Get)
api_createUser(body) == request(<<"users">>, Post([user |-> body]))
api_updateUser(id, body) == request(<<"users", id>>, Put([user |-> body]))
api_getCustomer(id) == request(<<"customers", id>>, Get)
api_updateCustomer(id, body) == request(<<"customers", id>>, Put([customer |-> body]))

\* formData.store_id ? parseInt(formData.store_id) : undefined
storeIdOf(store_id) == IF store_id # "" THEN Num(1) ELSE Undefined

\* NewUserPage.handleSubmit, lines 392-415: the message of the first rule
\* that fails, Null when all pass.
NewUser_validate(fd) ==
    IF Len(fd.password) < 8
    THEN Str("Password must be at least 8 characters")
    ELSE IF fd.password # fd.confirmPassword
    THEN Str("Passwords do not match")
    ELSE IF fd.role \in {"store_worker", "store_manager"} /\ fd.store_id = ""
    THEN Str("Store workers and managers must be assigned to a store")
    ELSE IF fd.role = "org_admin" /\ fd.store_id # ""
    THEN Str("Organization admins cannot be assigned to a store")
    ELSE Null

\* EditUserPage.handleSubmit, lines 95-118: the password rules apply to an
\* entered password only (formData.password && ...).
EditUser_validate(fd) ==
    IF fd.password # <<>> /\ Len(fd.password) < 8
    THEN Str("Password must be at least 8 characters")
    ELSE IF fd.password # <<>> /\ fd.password # fd.confirmPassword
    THEN Str("Passwords do not match")
    ELSE IF fd.role \in {"store_worker", "store_manager"} /\ fd.store_id = ""
    THEN Str("Store workers and managers must be assigned to a store")
    ELSE IF fd.role = "org_admin" /\ fd.store_id # ""
    THEN Str("Organization admins cannot be assigned to a store")
    ELSE Null

\* OnboardingPage.handleSubmit, lines 189-227: the rules of the current step.
Onboarding_validate(pg) ==
    CASE pg.step = 1 ->
             IF IsBlank(pg.organization.name)
             THEN Str("Organization name is required") ELSE Null
      [] pg.step = 2 ->
             IF IsBlank(pg.store.name) \/ IsBlank(pg.store.code)
             THEN Str("Store name and code are required") ELSE Null
      [] OTHER ->
             IF IsBlank(pg.user.name) \/ IsBlank(pg.user.email)
                \/ pg.user.password = <<>>
             THEN Str("All user fields are required")
             ELSE IF Len(pg.user.password) < 8
             THEN Str("Password must be at least 8 characters")
             ELSE IF pg.user.password # pg.user.confirmPassword
             THEN Str("Passwords do not match")
             ELSE Null

\* NewCustomerPage.onSubmit line 19, EditCustomerPage.onSubmit line 40.
Customer_validate(pg) ==
    IF IsBlank(pg.name) \/ IsBlank(pg.phone)
    THEN Str("Name and phone are required") ELSE Null

\* The busy flag of a form: saving in Edit User, loading in the others.
busy(pg) == IF pg.kind = "EditUser" THEN pg.saving ELSE pg.loading

\* Mutant of rejected: the flag the handler raised first is left raised.
rejected_staysBusy(pg, message) ==
    IF pg.kind = "EditUser"
    THEN [pg EXCEPT !.error = message.text, !.saving = TRUE]
    ELSE IF pg.kind \in {"NewUser", "Onboarding"}
    THEN [pg EXCEPT !.error = message.text, !.loading = TRUE]
    ELSE [pg EXCEPT !.error = message]

\* A validation branch: setError(message), and in the user forms and the
\* wizard setLoading(false) / setSaving(false) after the setLoading(true) the
\* handler began with; the customer forms have not raised the flag yet.
rejected(pg, message) ==
    IF pg.kind = "EditUser"
    THEN [pg EXCEPT !.error = message.text, !.saving = FALSE]
    ELSE IF pg.kind \in {"NewUser", "Onboarding"}
    THEN [pg EXCEPT !.error = message.text, !.loading = FALSE]
    ELSE [pg EXCEPT !.error = message]

\* The state of a form after its first render and its mount effect.
MountedForm(v) ==
    CASE v = "NewUser" ->
             [kind |-> v, loading |-> FALSE, error |-> "",
              formData |-> EmptyUserForm]
      [] v = "EditUser" ->
             [kind |-> v, loading |-> TRUE, saving |-> FALSE, error |-> "",
              user |-> Null, formData |-> EmptyUserForm]
      [] v = "Onboarding" ->
             [kind |-> v, step |-> 1, loading |-> FALSE, error |-> "",
              organization |-> [name |-> <<>>],
              store |-> [name |-> <<>>, code |-> <<>>],
              user |-> [name |-> <<>>, email |-> <<>>, password |-> <<>>,
                        confirmPassword |-> <<>>]]
      [] v = "NewCustomer" ->
             [kind |-> v, loading |-> FALSE, error |-> Null,
              name |-> <<>>, phone |-> <<>>]
      [] v = "EditCustomer" ->
             [kind |-> v, loading |-> TRUE, error |-> Null,
              name |-> <<>>, phone |-> <<>>]

\* The requests the mount effect of a form leaves in flight.
MountLoads(v) ==
    IF v \in {"EditUser", "EditCustomer"}
    THEN SetToBag({Awaiting("load")}) ELSE EmptyBag

----------------------------------------------------------------------------
(* Actions of the forms *)

\* A step of a form's handler that leaves the session alone.
FormStep(op) ==
    /\ phase = "mounted"
    /\ view \in FormViews
    /\ last' = op
    /\ dispatched' = <<>>
    /\ UNCHANGED <<phase, user, token, currentStore, availableStores, storage,
                   fetches, loginReq, loginLoading, loginError>>
    /\ UNCHANGED formVars

\* The form is unmounted (navigate after a success); the page it leads to is
\* not one of this part.
LeaveForm ==
    /\ view' = "none"
    /\ page' = [kind |-> "none"]
    /\ inflight' = EmptyBag

\* App, lines 69-72 and the routes: the wizard is what an anonymous visitor
\* of a fresh installation sees; the user forms are rendered for org admins,
\* the customer forms for every authenticated user.
MayOpen(v) ==
    CASE v = "Onboarding" -> ~isAuthenticated
      [] v \in {"NewUser", "EditUser"} -> isAuthenticated /\ isOrgAdmin
      [] OTHER -> isAuthenticated

\* The form v is opened: first render, then its mount effect.
OpenForm(v) ==
    /\ phase = "mounted"
    /\ view = "none"
    /\ MayOpen(v)
    /\ view' = v
    /\ page' = MountedForm(v)
    /\ inflight' = MountLoads(v)
    /\ sent' = CASE v = "EditUser" -> <<Issued("getUser", api_getUser("7"))>>
                 [] v = "EditCustomer" -> <<Issued("getCustomer", api_getCustomer("3"))>>
                 [] OTHER -> <<>>
    /\ last' = [op |-> "open", form |-> v]
    /\ dispatched' = <<>>
    /\ UNCHANGED <<phase, user, token, currentStore, availableStores, storage,
                   fetches, loginReq, loginLoading, loginError>>
    /\ UNCHANGED formVars

\* Whether the form's fields are on screen: Edit User renders them once the
\* user is loaded, Edit Customer unless (loading && !name).
FormShown ==
    CASE view = "EditUser" -> ~page.loading /\ page.user # Null
      [] view = "EditCustomer" -> ~(page.loading /\ page.name = <<>>)
      [] OTHER -> TRUE

\* The user types into the fields of a user form (disabled while busy).
UserFormEdit(fd) ==
    /\ view \in {"NewUser", "EditUser"}
    /\ FormShown
    /\ ~busy(page)
    /\ fd # page.formData
    /\ FormStep([op |-> "edit"])
    /\ page' = [page EXCEPT !.formData = fd]
    /\ sent' = <<>>
    /\ UNCHANGED <<view, inflight>>

\* The user types into the fields of a customer form. While a request is
\* awaited the handler works on the values of its closure, so edits made
\* meanwhile change nothing that is modelled and are left out.
CustomerFormEdit(n, p) ==
    /\ view \in {"NewCustomer", "EditCustomer"}
    /\ FormShown
    /\ ~page.loading
    /\ <<n, p>> # <<page.name, page.phone>>
    /\ FormStep([op |-> "edit"])
    /\ page' = [page EXCEPT !.name = n, !.phone = p]
    /\ sent' = <<>>
    /\ UNCHANGED <<view, inflight>>

\* The user types into the fields of the wizard's current step.
OnboardingEdit(a, b, pw, cpw) ==
    /\ view = "Onboarding"
    /\ ~page.loading
    /\ FormStep([op |-> "edit"])
    /\ page' = CASE page.step = 1 -> [page EXCEPT !.organization.name = a]
                 [] page.step = 2 -> [page EXCEPT !.store = [name |-> a, code |-> b]]
                 [] OTHER -> [page EXCEPT !.user = [name |-> a, email |-> b,
                                                    password |-> pw,
                                                    confirmPassword |-> cpw]]
    /\ page' # page
    /\ sent' = <<>>
    /\ UNCHANGED <<view, inflight>>

\* A handler that found a validation failure.
Reject(pg, message) ==
    /\ page' = rejected(pg, message)
    /\ sent' = <<>>
    /\ UNCHANGED <<view, inflight>>

\* A handler that sends the request call and awaits its response.
SendForm(pg, op, call, what) ==
    /\ page' = pg
    /\ sent' = <<Issued(op, call)>>
    /\ inflight' = inflight (+) SetToBag({Awaiting(what)})
    /\ UNCHANGED view

\* NewUserPage.handleSubmit, lines 387-433, up to the await; the submit
\* button is disabled while loading.
NewUser_handleSubmit ==
    /\ view = "NewUser"
    /\ ~page.loading
    /\ FormStep([op |-> "submit", form |-> page])
    /\ LET begun == [page EXCEPT !.loading = TRUE, !.error = ""]
           fd == page.formData
           failure == NewUser_validate(fd)
       IN  IF failure # Null
           THEN Reject(begun, failure)
           ELSE SendForm(begun, "createUser",
                     api_createUser([password |-> fd.password, role |-> fd.role,
                                     store_id |-> storeIdOf(fd.store_id)]),
                     "submit")

\* EditUserPage.handleSubmit, lines 90-134, up to the await.
EditUser_handleSubmit ==
    /\ view = "EditUser"
    /\ FormShown
    /\ ~page.saving
    /\ FormStep([op |-> "submit", form |-> page])
    /\ LET begun == [page EXCEPT !.saving = TRUE, !.error = ""]
           fd == page.formData
           failure == EditUser_validate(fd)
           updateData == [role |-> fd.role, store_id |-> storeIdOf(fd.store_id)]
       IN  IF failure # Null
           THEN Reject(begun, failure)
           ELSE SendForm(begun, "updateUser",
                     api_updateUser("7",
                         IF fd.password # <<>>
                         THEN [role |-> fd.role,
                               store_id |-> storeIdOf(fd.store_id),
                               password |-> fd.password]
                         ELSE updateData),
                     "submit")

\* currentStore?.id || user?.store?.id
storeIdFor(s) ==
    IF s.currentStore # Null THEN Num(s.currentStore.id)
    ELSE IF UserStore(s.user) # Null THEN Num(s.user.store.id)
    ELSE Undefined

\* NewCustomerPage.onSubmit, lines 17-31, up to the await of the duplicate
\* check; the submit button is disabled while loading.
NewCustomer_onSubmit ==
    /\ view = "NewCustomer"
    /\ ~page.loading
    /\ FormStep([op |-> "submit", form |-> page])
    /\ LET failure == Customer_validate(page)
       IN  IF failure # Null
           THEN Reject(page, failure)
           ELSE SendForm([page EXCEPT !.error = Null, !.loading = TRUE],
                     "listCustomers", api_listCustomers, "check")

\* NewCustomerPage.onSubmit, lines 31-52: the duplicate check is answered
\* (a failed check is swallowed and counts as no duplicate).
NewCustomer_checked(duplicate) ==
    /\ view = "NewCustomer"
    /\ BagIn(Awaiting("check"), inflight)
    /\ FormStep([op |-> "checked", duplicate |-> duplicate])
    /\ UNCHANGED view
    /\ IF duplicate
       THEN /\ page' = [page EXCEPT
                           !.error = Str("A customer with phone number already exists in this store"),
                           !.loading = FALSE]
            /\ sent' = <<>>
            /\ inflight' = inflight (-) SetToBag({Awaiting("check")})
       ELSE /\ page' = page
            /\ sent' = <<Issued("createCustomer",
                                api_createCustomer(
                                    [name |-> trim(page.name),
                                     phone |-> trim(page.phone),
                                     store_id |-> storeIdFor(Session)]))>>
            /\ inflight' = (inflight (-) SetToBag({Awaiting("check")}))
                               (+) SetToBag({Awaiting("submit")})

\* EditCustomerPage.onSubmit, lines 37-61, up to the await.
EditCustomer_onSubmit ==
    /\ view = "EditCustomer"
    /\ FormShown
    /\ ~page.loading
    /\ FormStep([op |-> "submit", form |-> page])
    /\ LET failure == Customer_validate(page)
       IN  IF failure # Null
           THEN Reject(page, failure)
           ELSE SendForm([page EXCEPT !.error = Null, !.loading = TRUE],
                     "updateCustomer",
                     api_updateCustomer("3", [name |-> trim(page.name),
                                              phone |-> trim(page.phone)]),
                     "submit")

\* The mount effect's request of an edit form is answered: loadUser lines
\* 35-48, EditCustomerPage's load lines 21-28 and 31-33.
FormLoadOk(fd, n, p) ==
    /\ view \in {"EditUser", "EditCustomer"}
    /\ BagIn(Awaiting("load"), inflight)
    /\ FormStep([op |-> "load_ok"])
    /\ page' = IF view = "EditUser"
               THEN [page EXCEPT !.user = [id |-> Num(7)], !.formData = fd,
                                 !.error = "", !.loading = FALSE]
               ELSE [page EXCEPT !.name = n, !.phone = p, !.loading = FALSE]
    /\ sent' = <<>>
    /\ inflight' = inflight (-) SetToBag({Awaiting("load")})
    /\ UNCHANGED view

\* The mount effect's request fails: loadUser lines 49-54, load lines 29-33.
FormLoadFail(failure) ==
    /\ view \in {"EditUser", "EditCustomer"}
    /\ BagIn(Awaiting("load"), inflight)
    /\ FormStep([op |-> "load_fail", failure |-> failure])
    /\ page' = IF view = "EditUser"
               THEN [page EXCEPT !.error = requestError(failure).text,
                                 !.loading = FALSE]
               ELSE [page EXCEPT !.error = requestError(failure),
                                 !.loading = FALSE]
    /\ sent' = <<>>
    /\ inflight' = inflight (-) SetToBag({Awaiting("load")})
    /\ UNCHANGED view

\* The create / update request of a user or customer form succeeds: the
\* handler navigates away.
FormSubmitOk ==
    /\ view \in FormViews \ {"Onboarding"}
    /\ BagIn(Awaiting("submit"), inflight)
    /\ FormStep([op |-> "submit_ok"])
    /\ LeaveForm
    /\ sent' = <<>>

\* The create / update request fails: the catch branch shows the message and
\* lowers the busy flag (in the customer forms the finally branch does).
FormSubmitFail(failure) ==
    /\ view \in FormViews \ {"Onboarding"}
    /\ BagIn(Awaiting("submit"), inflight)
    /\ FormStep([op |-> "submit_fail", failure |-> failure])
    /\ page' = CASE view = "EditUser" ->
                        [page EXCEPT !.error = requestError(failure).text,
                                     !.saving = FALSE]
                 [] view = "NewUser" ->
                        [page EXCEPT !.error = requestError(failure).text,
                                     !.loading = FALSE]
                 [] OTHER ->
                        [page EXCEPT !.error = requestError(failure),
                                     !.loading = FALSE]
    /\ sent' = <<>>
    /\ inflight' = inflight (-) SetToBag({Awaiting("submit")})
    /\ UNCHANGED view

\* A link of the layout is followed: the form is unmounted (the wizard has
\* no layout around it).
CloseForm ==
    /\ view \in FormViews \ {"Onboarding"}
    /\ FormStep([op |-> "close"])
    /\ LeaveForm
    /\ sent' = <<>>

\* text.toUpperCase()
toUpperCase(text) ==
    [i \in 1..Len(text) |-> IF text[i] = "a" THEN "A"
                            ELSE IF text[i] = "p" THEN "P" ELSE text[i]]

\* OnboardingPage.handleSubmit, lines 229-248: the fetch call of step 3 (a
\* FormData body, so fetch sets the content type itself).
onboardRequest(pg) ==
    [url |-> <<"auth", "onboard">>,
     method |-> "POST",
     headers |-> {},
     body |-> [formData |->
                  [organization_name |-> pg.organization.name,
                   store_name |-> pg.store.name,
                   store_code |-> toUpperCase(pg.store.code),
                   user_name |-> pg.user.name,
                   user_email |-> pg.user.email,
                   user_password |-> pg.user.password]]]

\* login, lines 119-125: its fetch call.
loginRequest(email, password) ==
    [url |-> <<"auth", "login">>,
     method |-> "POST",
     headers |-> {[name |-> "Content-Type", value |-> "application/json"]},
     body |-> Stringify([email |-> email, password |-> password])]

\* OnboardingPage.handleSubmit, lines 250-253 and 267-269: the message shown
\* when the onboard request fails: fetch's TypeError, response.json()'s
\* SyntaxError, the TypeError of reading error of null, else
\* error.error || 'Onboarding failed'.
onboardError(failure) ==
    IF "transport" \in DOMAIN failure
    THEN "Failed to fetch"
    ELSE IF "malformed" \in DOMAIN failure
    THEN "Unexpected token < in JSON at position 0"
    ELSE IF failure.data = Null
    THEN "Cannot read properties of null (reading 'error')"
    ELSE IF FieldOf(failure.data, "error") # ""
    THEN FieldOf(failure.data, "error")
    ELSE "Onboarding failed"

\* The profile the backend returns for the user the wizard creates.
OnboardedUsers == {Admin}

\* OnboardingPage.handleSubmit, lines 184-248, up to the await of step 3;
\* both buttons are disabled while loading.
Onboarding_handleSubmit ==
    /\ view = "Onboarding"
    /\ ~page.loading
    /\ BagCardinality(fetches) < MaxFetches
    /\ FormStep([op |-> "submit", form |-> page])
    /\ LET begun == [page EXCEPT !.loading = TRUE, !.error = ""]
           failure == Onboarding_validate(page)
       IN  IF failure # Null
           THEN Reject(begun, failure)
           ELSE IF page.step < 3
           THEN /\ page' = [begun EXCEPT !.step = page.step + 1,
                                         !.loading = FALSE]
                /\ sent' = <<>>
                /\ UNCHANGED <<view, inflight>>
           ELSE SendForm(begun, "onboard", onboardRequest(page), "onboard")

\* The Previous button, lines 530-533.
Onboarding_previous ==
    /\ view = "Onboarding"
    /\ page.step > 1
    /\ ~page.loading
    /\ FormStep([op |-> "previous"])
    /\ page' = [page EXCEPT !.step = page.step - 1, !.error = ""]
    /\ sent' = <<>>
    /\ UNCHANGED <<view, inflight>>

\* The onboard request fails or is answered without response.ok: lines
\* 250-253, then the catch branch.
OnboardResponseFail(failure) ==
    /\ view = "Onboarding"
    /\ BagIn(Awaiting("onboard"), inflight)
    /\ FormStep([op |-> "onboard_fail", failure |-> failure])
    /\ page' = [page EXCEPT !.error = onboardError(failure), !.loading = FALSE]
    /\ sent' = <<>>
    /\ inflight' = inflight (-) SetToBag({Awaiting("onboard")})
    /\ UNCHANGED view

\* The onboard request is answered with response.ok, lines 255-262: the
\* returned token and user are written to localStorage, then login is called
\* and awaited.
OnboardResponseOk(newToken, newUser) ==
    /\ phase = "mounted"
    /\ view = "Onboarding"
    /\ BagIn(Awaiting("onboard"), inflight)
    /\ storage' = setItem(setItem(storage, "auth_token", newToken),
                          "auth_user", Stringify(newUser))
    /\ loginReq' = Closure(Session)
    /\ sent' = <<Issued("login", loginRequest(page.user.email, page.user.password))>>
    /\ inflight' = inflight (-) SetToBag({Awaiting("onboard")})
    /\ last' = [op |-> "onboard_ok", token |-> newToken, user |-> newUser]
    /\ dispatched' = <<>>
    /\ UNCHANGED <<phase, user, token, currentStore, availableStores, fetches,
                   loginLoading, loginError, view, page>>
    /\ UNCHANGED formVars

\* The wizard's login resumes with response.ok (login lines 132-146), then
\* the [user, token] effect; the wizard navigates to the dashboard, line 265.
OnboardLoginOk(newToken, newUser) ==
    /\ view = "Onboarding"
    /\ loginReq # Null
    /\ Apply(loginSuccess(Session, newToken, newUser))
    /\ fetches' = fetches (+) fetchCall(loginReq)
                          (+) fetchEffect(loginSuccess(Session, newToken, newUser))
    /\ loginReq' = Null
    /\ LeaveForm
    /\ sent' = <<>>
    /\ last' = [op |-> "onboard_login_ok", token |-> newToken, user |-> newUser]
    /\ dispatched' = <<>>
    /\ UNCHANGED <<phase, loginLoading, loginError>>
    /\ UNCHANGED formVars

\* The wizard's login throws (login lines 127-130); the catch branch of
\* handleSubmit, lines 266-270, shows the message. What lines 258-259 wrote
\* stays in localStorage.
OnboardLoginFail(reason) ==
    /\ view = "Onboarding"
    /\ loginReq # Null
    /\ loginReq' = Null
    /\ page' = [page EXCEPT !.error = loginErrorMessage(reason), !.loading = FALSE]
    /\ sent' = <<>>
    /\ last' = [op |-> "onboard_login_fail", reason |-> reason]
    /\ dispatched' = <<>>
    /\ UNCHANGED <<phase, user, token, currentStore, availableStores, storage,
                   fetches, loginLoading, loginError, view, inflight>>
    /\ UNCHANGED formVars

\* The session when a form is opened: nobody signed in on a fresh browser, or
\* an org admin with a selected store.
ValidationInit ==
    /\ phase = "mounted"
    /\ \/ /\ user = Null
          /\ token = Null
          /\ currentStore = Null
          /\ storage = [k \in StorageKeys |-> Null]
       \/ /\ user = Admin
          /\ token = [jwt |-> "t1"]
          /\ currentStore = StoreA
          /\ storage = [k \in StorageKeys |->
                           CASE k = "auth_token" -> [jwt |-> "t1"]
                             [] k = "auth_user" -> Stringify(Admin)
                             [] OTHER -> Stringify(StoreA)]
    /\ availableStores = <<>>
    /\ fetches = EmptyBag
    /\ loginReq = Null
    /\ loginLoading = FALSE
    /\ loginError = ""
    /\ dispatched = <<>>
    /\ last = [op |-> "mount"]
    /\ FormIdle
    /\ PagesIdle

ValidationNext ==
    \/ \E v \in FormViews : OpenForm(v)
    \/ CloseForm
    \/ \E fd \in UserForms : UserFormEdit(fd)
    \/ \E n, p \in FieldTexts : CustomerFormEdit(n, p)
    \/ \E a, b \in FieldTexts, pw, cpw \in PasswordTexts : OnboardingEdit(a, b, pw, cpw)
    \/ NewUser_handleSubmit
    \/ EditUser_handleSubmit
    \/ NewCustomer_onSubmit
    \/ \E d \in BOOLEAN : NewCustomer_checked(d)
    \/ EditCustomer_onSubmit
    \/ \E fd \in LoadedUserForms, n, p \in FieldTexts : FormLoadOk(fd, n, p)
    \/ \E f \in Failures : FormLoadFail(f)
    \/ FormSubmitOk
    \/ \E f \in Failures : FormSubmitFail(f)
    \/ Onboarding_handleSubmit
    \/ Onboarding_previous
    \/ \E f \in Failures : OnboardResponseFail(f)
    \/ \E t \in Tokens, u \in OnboardedUsers : OnboardResponseOk(t, u)
    \/ \E t \in Tokens, u \in OnboardedUsers : OnboardLoginOk(t, u)
    \/ \E r \in Reasons : OnboardLoginFail(r)
    \/ \E c \in BagToSet(fetches), l \in StoreLists : FetchResponseOk(c, l)
    \/ \E c \in BagToSet(fetches) : FetchResponseFail(c)

ValidationSpec == ValidationInit /\ [][ValidationNext]_vars

----------------------------------------------------------------------------
(* C16 *)

\* The validation failures of a form, as the contract lists them: a password
\* shorter than 8 characters or different from its confirmation, a store
\* role without a store, an org admin with a store (user forms); a blank
\* required field of the current step, or a step-3 password that is too
\* short or unconfirmed (wizard); a blank name or phone (customer forms).
\* In Edit User the password field is optional (blank keeps the password),
\* so its two password rules are about an entered password.
C16_BadPassword(password, confirmPassword) ==
    Len(password) < 8 \/ password # confirmPassword

C16_BadRole(fd) ==
    \/ fd.role \in {"store_worker", "store_manager"} /\ fd.store_id = ""
    \/ fd.role = "org_admin" /\ fd.store_id # ""

C16_Invalid(pg) ==
    CASE pg.kind = "NewUser" ->
             \/ C16_BadPassword(pg.formData.password, pg.formData.confirmPassword)
             \/ C16_BadRole(pg.formData)
      [] pg.kind = "EditUser" ->
             \/ /\ pg.formData.password # <<>>
                /\ C16_BadPassword(pg.formData.password, pg.formData.confirmPassword)
             \/ C16_BadRole(pg.formData)
      [] pg.kind = "Onboarding" ->
             CASE pg.step = 1 -> trim(pg.organization.name) = <<>>
               [] pg.step = 2 -> trim(pg.store.name) = <<>> \/ trim(pg.store.code) = <<>>
               [] OTHER -> \/ trim(pg.user.name) = <<>>
                           \/ trim(pg.user.email) = <<>>
                           \/ C16_BadPassword(pg.user.password, pg.user.confirmPassword)
      [] pg.kind \in {"NewCustomer", "EditCustomer"} ->
             trim(pg.name) = <<>> \/ trim(pg.phone) = <<>>
      [] OTHER -> FALSE

\* The form shows an error message.
C16_HasMessage(pg) ==
    IF pg.kind \in {"NewCustomer", "EditCustomer"}
    THEN pg.error # Null /\ pg.error.text # ""
    ELSE pg.error # ""

\* What the contract promises of the step that turns a submission down: no
\* request is sent (no api call, no login, no store fetch), the form shows
\* an error message, and its busy flag is false afterwards with the form
\* still mounted, so that it can be submitted again.
C16_Blocked ==
    /\ sent' = <<>>
    /\ inflight' = inflight
    /\ loginReq' = loginReq
    /\ fetches' = fetches
    /\ view' = view
    /\ C16_HasMessage(page')
    /\ ~busy(page')

\* The listed failures with the password rules applied to Edit User whatever
\* its password field holds.
C16_InvalidAsListed(pg) ==
    IF pg.kind = "EditUser"
    THEN \/ C16_BadPassword(pg.formData.password, pg.formData.confirmPassword)
         \/ C16_BadRole(pg.formData)
    ELSE C16_Invalid(pg)

\* C16, as stated: whenever a form is submitted with one of the listed
\* validation failures (in Edit User as in New User: a password shorter than
\* 8 characters or different from its confirmation), no request is sent, an
\* error message is set and the busy flag is false afterwards.
C16_Original ==
    [][(last'.op = "submit" /\ view \in FormViews /\ C16_InvalidAsListed(page))
           => C16_Blocked]_vars

\* C16, amended: the same, with the two password rules of Edit User applying
\* only when a password has been entered.
C16_ValidationBlocksSubmission ==
    [][(last'.op = "submit" /\ view \in FormViews /\ C16_Invalid(page))
           => C16_Blocked]_vars

\* An Edit User form with a too short password has been submitted and turned down.
C16_Witness ==
    /\ last.op = "submit"
    /\ view = "EditUser"
    /\ last.form.formData.password = ShortPassword
    /\ page.error = "Password must be at least 8 characters"
    /\ ~page.saving
    /\ sent = <<>>

C16_WitnessNewUser ==
    /\ last.op = "submit"
    /\ view = "NewUser"
    /\ last.form.formData.password = LongPassword
    /\ last.form.formData.confirmPassword = LongPassword
    /\ page.error = "Organization admins cannot be assigned to a store"
    /\ ~page.loading

C16_WitnessOnboarding ==
    /\ last.op = "submit"
    /\ view = "Onboarding"
    /\ page.step = 3
    /\ page.user.email = <<" ">>
    /\ page.error = "All user fields are required"
    /\ ~page.loading

C16_WitnessCustomer ==
    /\ last.op = "submit"
    /\ view = "NewCustomer"
    /\ page.phone = <<" ">>
    /\ page.error = Str("Name and phone are required")
    /\ ~page.loading

\* Edit User submitted with an empty password field and a filled
\* confirmation: the update request is sent, without a password.
C16_WitnessEditUserBlankPassword ==
    /\ last.op = "submit"
    /\ view = "EditUser"
    /\ last.form.formData.password = <<>>
    /\ last.form.formData.confirmPassword = LongPassword
    /\ Len(sent) = 1
    /\ sent[1].op = "updateUser"
    /\ page.saving

----------------------------------------------------------------------------
(* Part 6: the session together with the onboarding wizard.                 *)
(* Specification: OnboardSpec.                                              *)

\* The user reloads the browser tab: memory is lost, requests are abandoned,
\* the mounted page is gone, storage stays.
AppReload ==
    /\ phase # "init"
    /\ phase' = "init"
    /\ Apply(Unmounted(storage))
    /\ fetches' = EmptyBag
    /\ loginReq' = Null
    /\ loginLoading' = FALSE
    /\ loginError' = ""
    /\ dispatched' = <<>>
    /\ last' = [op |-> "reload"]
    /\ UNCHANGED formVars
    /\ LeaveForm
    /\ sent' = <<>>

\* App, lines 69-72: the backend reported needs_onboarding and nobody is
\* signed in, so the wizard is rendered in place of the routes.
OpenOnboarding ==
    /\ loginReq = Null
    /\ ~loginLoading
    /\ OpenForm("Onboarding")

\* The wizard's fields as a visitor fills them in correctly.
WizardText == <<"a">>

\* A fresh browser: nothing in localStorage.
OnboardInit ==
    /\ Init
    /\ storage = [k \in StorageKeys |-> Null]

OnboardNext ==
    \/ Mount
    \/ AppReload
    \/ view = "none" /\ LoginSubmit
    \/ \E t \in Tokens, u \in Users : view = "none" /\ LoginResponseOk(t, u)
    \/ \E r \in Reasons : view = "none" /\ LoginResponseFail(r)
    \/ Logout
    \/ \E i \in 1..2 : StoreSelectorClick(i)
    \/ StoreSelectorDefault
    \/ \E c \in BagToSet(fetches), l \in StoreLists : FetchResponseOk(c, l)
    \/ \E c \in BagToSet(fetches) : FetchResponseFail(c)
    \/ OpenOnboarding
    \/ OnboardingEdit(WizardText, WizardText, LongPassword, LongPassword)
    \/ Onboarding_handleSubmit
    \/ Onboarding_previous
    \/ \E f \in Failures : OnboardResponseFail(f)
    \/ \E t \in Tokens, u \in OnboardedUsers : OnboardResponseOk(t, u)
    \/ \E t \in Tokens, u \in OnboardedUsers : OnboardLoginOk(t, u)
    \/ \E r \in Reasons : OnboardLoginFail(r)

OnboardSpec == OnboardInit /\ [][OnboardNext]_vars

----------------------------------------------------------------------------
(* C18 *)

\* No request is in flight and the provider has run its mount effect.
C18_Quiescent ==
    /\ phase = "mounted"
    /\ fetches = EmptyBag
    /\ loginReq = Null
    /\ inflight = EmptyBag

\* Running the mount-time rehydration against storage st completes and gives
\* the status, token, user and currentStore that are held in memory.
C18_ReloadGivesMemory(st) ==
    /\ ~rehydrateThrows(st)
    /\ LET r == rehydrate(Unmounted(st))
       IN  /\ isAuthenticatedIn(r) = isAuthenticated
           /\ r.token = token
           /\ r.user = user
           /\ r.currentStore = currentStore

\* C18: at every quiescent point a reload would restore exactly the session
\* held in memory: the same authenticated / anonymous status, token, user
\* and currentStore.
C18_Original == C18_Quiescent => C18_ReloadGivesMemory(storage)

\* The same, at the quiescent points right after the wizard's login failed.
C18_AfterFailedOnboardingLogin ==
    (C18_Quiescent /\ last.op = "onboard_login_fail")
        => C18_ReloadGivesMemory(storage)

\* The same, at the quiescent points right after a login (from the login
\* page or from the wizard) whose store fetch has been answered.
C18_AfterLogin ==
    (C18_Quiescent /\ last.op \in {"fetch_ok", "fetch_fail"} /\ isAuthenticated)
        => C18_ReloadGivesMemory(storage)

\* The same, at the quiescent points where nobody is signed in and the
\* wizard has not been submitted.
C18_AfterLogout ==
    (C18_Quiescent /\ last.op = "logout") => C18_ReloadGivesMemory(storage)

----------------------------------------------------------------------------
(* Part 7: the subtotal as JavaScript computes it, in IEEE 754 binary64      *)
(* arithmetic (round to nearest, ties to even). Specification: FloatSpec.   *)

\* Natural numbers of any size are held as sequences of limbs, digits in
\* base 2^13 with the least significant first and no zero limb at the top.
LimbBase == 2 ^ 13

Zeros(n) == [i \in 1..n |-> 0]
LimbAt(a, i) == IF i \in 1..Len(a) THEN a[i] ELSE 0

RECURSIVE StripTop(_)
StripTop(a) ==
    IF a # <<>> /\ a[Len(a)] = 0 THEN StripTop(SubSeq(a, 1, Len(a) - 1)) ELSE a

RECURSIVE IntLimbs(_)
\* The limbs of a natural number that TLC holds as an integer.
IntLimbs(n) == IF n = 0 THEN <<>> ELSE <<n % LimbBase>> \o IntLimbs(n \div LimbBase)

RECURSIVE Carried(_, _, _)
\* The limbs from position i on of the number whose digits are cols (digits
\* that may exceed the base), with a carry into position i.
Carried(cols, i, carry) ==
    IF i > Len(cols)
    THEN IntLimbs(carry)
    ELSE LET s == cols[i] + carry
         IN  <<s % LimbBase>> \o Carried(cols, i + 1, s \div LimbBase)

\* a + b, exact.
BigAdd(a, b) ==
    StripTop(Carried([i \in 1..Max(Len(a), Len(b)) |-> LimbAt(a, i) + LimbAt(b, i)], 1, 0))

RECURSIVE ColumnSum(_, _, _, _)
\* The sum of a[i] * b[c - i + 1] over i = 1..k.
ColumnSum(a, b, c, k) ==
    IF k = 0 THEN 0
    ELSE ColumnSum(a, b, c, k - 1) + a[k] * LimbAt(b, c - k + 1)

\* a * b, exact.
BigMul(a, b) ==
    IF a = <<>> \/ b = <<>> THEN <<>>
    ELSE StripTop(Carried([c \in 1..(Len(a) + Len(b) - 1) |-> ColumnSum(a, b, c, Len(a))],
                          1, 0))

\* a * 2^k and a \div 2^k.
BigShiftLeft(a, k) ==
    LET q == k \div 13
        p == 2 ^ (k % 13)
    IN  StripTop(Zeros(q) \o
                 [j \in 1..(Len(a) + 1) |->
                     ((LimbAt(a, j) * p) % LimbBase) + ((LimbAt(a, j - 1) * p) \div LimbBase)])

BigShiftRight(a, k) ==
    LET q == k \div 13
        r == k % 13
    IN  StripTop([j \in 1..(IF Len(a) > q THEN Len(a) - q ELSE 0) |->
                     (LimbAt(a, j + q) \div (2 ^ r))
                         + ((LimbAt(a, j + q + 1) % (2 ^ r)) * (2 ^ (13 - r)))])

\* The number of binary digits of a (a > 0), its binary digit of weight 2^i,
\* and whether one of its digits of weight below 2^k is 1.
BigBitLength(a) ==
    13 * (Len(a) - 1)
        + (CHOOSE k \in 1..13 : 2 ^ (k - 1) <= a[Len(a)] /\ a[Len(a)] < 2 ^ k)

BigBit(a, i) == (LimbAt(a, (i \div 13) + 1) \div (2 ^ (i % 13))) % 2

BigLowBits(a, k) ==
    \/ \E j \in 1..Len(a) : j <= k \div 13 /\ a[j] # 0
    \/ LimbAt(a, (k \div 13) + 1) % (2 ^ (k % 13)) # 0

\* A number that is zero or positive, as JavaScript holds it: the mantissa
\* m, a natural number of exactly 53 binary digits, and the weight 2^e of
\* its last digit, so that the value is m * 2^e; zero has no mantissa. (The
\* amounts of a form stay far from the subnormal and the overflow range.)
FloatZero == [m |-> <<>>, e |-> 0]

\* The binary64 number nearest to a * 2^e, ties to the even mantissa.
RoundToDouble(a, e) ==
    IF a = <<>> THEN FloatZero
    ELSE LET n == BigBitLength(a)
             k == n - 53
         IN  IF k <= 0
             THEN [m |-> BigShiftLeft(a, -k), e |-> e + k]
             ELSE LET q == BigShiftRight(a, k)
                      up == /\ BigBit(a, k - 1) = 1
                            /\ BigLowBits(a, k - 1) \/ BigBit(q, 0) = 1
                      r == IF up THEN BigAdd(q, <<1>>) ELSE q
                  IN  IF BigBitLength(r) = 54
                      THEN [m |-> BigShiftRight(r, 1), e |-> e + k + 1]
                      ELSE [m |-> r, e |-> e + k]

\* x + y and x * y of two such numbers.
FloatAdd(x, y) ==
    IF x.m = <<>> THEN y
    ELSE IF y.m = <<>> THEN x
    ELSE LET lo == IF x.e <= y.e THEN x.e ELSE y.e
         IN  RoundToDouble(BigAdd(BigShiftLeft(x.m, x.e - lo),
                                  BigShiftLeft(y.m, y.e - lo)), lo)

FloatMul(x, y) == RoundToDouble(BigMul(x.m, y.m), x.e + y.e)

RECURSIVE GCD(_, _)
GCD(a, b) == IF b = 0 THEN a ELSE GCD(b, a % b)

RECURSIVE FracLimbs(_, _, _)
\* The first k limbs of the fraction r / d below a limb that is 1 when
\* digits other than 0 follow them (d < 2^18).
FracLimbs(r, d, k) ==
    IF k = 0 THEN <<IF r # 0 THEN 1 ELSE 0>>
    ELSE Append(FracLimbs((r * LimbBase) % d, d, k - 1), (r * LimbBase) \div d)

\* The number a decimal text denotes, as parseFloat and parseInt return it:
\* the binary64 number nearest to n / d, for naturals n and d with n / d zero
\* or at least 2^-15 and at most three decimals.
ToDouble(n, d) ==
    IF n = 0 THEN FloatZero
    ELSE LET g == GCD(n, d)
             num == n \div g
             den == d \div g
         IN  RoundToDouble(StripTop(FracLimbs(num % den, den, 6) \o IntLimbs(num \div den)),
                           -(13 * 7))

\* NewInvoicePage, lines 455-462: the reducer's body and the reduce, on
\* JavaScript numbers. The quantity is an integer (parseInt), the price the
\* decimal that parseFloat read, in units of 1 / Scale.
Float_lineAmount(l) ==
    IF l.product_id = "" THEN FloatZero
    ELSE LET qty == ToDouble(OrZero(l.quantity), 1)
             price == ToDouble(OrZero(parseFloat(OrTextZero(l.unit_price))), Scale)
         IN  FloatMul(qty, price)

RECURSIVE Float_reduce(_, _)
Float_reduce(ls, sum) ==
    IF ls = <<>> THEN sum
    ELSE LET l == Head(ls)
         IN  Float_reduce(Tail(ls),
                          IF l.product_id = "" THEN sum
                          ELSE FloatAdd(sum, Float_lineAmount(l)))

Float_subtotal(ls) == Float_reduce(ls, FloatZero)

\* Bound: lines the form may hold in FloatSpec.
MaxFloatLines == 3

\* Prices typed into the price field: 0.1, 0.2, 0.3.
FloatPriceTexts == {<<"0", ".", "1">>, <<"0", ".", "2">>, <<"0", ".", "3">>}
\* Quantities typed into the Qty field.
FloatQtyTexts == {<<"1">>, <<"3">>}

\* The + Add Item button.
FloatAddLine ==
    /\ Len(lines) < MaxFloatLines
    /\ lines' = Append(lines, EmptyLine)
    /\ UNCHANGED <<discountType, discountValue, roundoff>>
    /\ UNCHANGED sessionVars
    /\ NoPageChange

FloatInit ==
    /\ FormInit
    /\ discountType = "percent"

FloatNext ==
    \/ \E idx \in 1..Len(lines), p \in Products : SelectProduct(idx, p)
    \/ \E idx \in 1..Len(lines), t \in FloatQtyTexts : SetQuantity(idx, t)
    \/ \E idx \in 1..Len(lines), t \in FloatPriceTexts : SetUnitPrice(idx, t)
    \/ FloatAddLine
    \/ \E idx \in 1..Len(lines) : RemoveLine(idx)

FloatSpec == FloatInit /\ [][FloatNext]_vars

----------------------------------------------------------------------------
(* C20 *)

\* The lists that hold the lines of ls in another order.
C20_Permutations(ls) ==
    {[i \in 1..Len(ls) |-> ls[f[i]]] :
        f \in {g \in [1..Len(ls) -> 1..Len(ls)] :
                  \A i, j \in 1..Len(ls) : g[i] = g[j] => i = j}}

\* C20: the subtotal of every permutation of the form's lines equals the
\* subtotal of the lines as they stand (quantities and prices of the form
\* are never negative here).
C20_Original ==
    \A p \in C20_Permutations(lines) : Float_subtotal(p) = Float_subtotal(lines)

\* With at most two lines with a product the order does not matter.
C20_TwoLines ==
    Cardinality({i \in 1..Len(lines) : lines[i].product_id # ""}) <= 2
        => C20_Original

\* Values of the arithmetic: parseFloat("0.1") is 0x3FB999999999999A,
\* 0.1 + 0.2 is 0.30000000000000004 and not 0.3, 1 * 0.1 is 0.1, 3 * 0.1 is
\* 0.1 + 0.2, addition commutes, and the sum of 0.1, 0.2 and 0.3 is 0.6 in
\* one order and 0.6000000000000001 in the other.
C20_Arithmetic ==
    LET d1 == ToDouble(1, 10)
        d2 == ToDouble(2, 10)
        d3 == ToDouble(3, 10)
        d6 == ToDouble(6, 10)
    IN  /\ d1 = [m |-> <<6554, 3276, 1638, 4915, 1>>, e |-> -56]
        /\ ToDouble(100000, Scale) = d1
        /\ FloatAdd(d1, d2) = [m |-> <<4916, 6553, 3276, 1638, 1>>, e |-> -54]
        /\ FloatAdd(d1, d2) # d3
        /\ FloatMul(ToDouble(1, 1), d1) = d1
        /\ FloatMul(ToDouble(3, 1), d1) = FloatAdd(d1, d2)
        /\ FloatAdd(d1, d2) = FloatAdd(d2, d1)
        /\ FloatAdd(FloatAdd(d3, d2), d1) = d6
        /\ FloatAdd(FloatAdd(d1, d2), d3) = [m |-> <<4916, 6553, 3276, 1638, 1>>, e |-> -53]
        /\ FloatAdd(FloatAdd(d1, d2), d3) # d6

----------------------------------------------------------------------------
(* Part 8: the totals as they are formatted for display and submission.     *)
(* Specification: RoundSpec, the form of Part 2 with prices, percentages    *)
(* and roundoffs that give totals of more than two decimals.                *)

RECURSIVE IntToDigits(_)
\* The decimal digits of a natural number, without leading zeros.
IntToDigits(n) ==
    IF n < 10 THEN <<DigitChars[n + 1]>>
    ELSE IntToDigits(n \div 10) \o <<DigitChars[(n % 10) + 1]>>

\* Mutant of toFixed: no fraction digits are kept (the text of toFixed(0)).
toFixed_noDecimals(v) ==
    LET x == IF v < 0 THEN -v ELSE v
        n == (x + Scale \div 2) \div Scale
    IN  (IF v < 0 THEN <<"-">> ELSE <<>>) \o IntToDigits(n)

\* Number.prototype.toFixed(2) of the number v (in units of 1 / Scale): the
\* sign when v < 0, then the integer n for which n / 100 is nearest to |v|
\* (the larger n of two), written with two fraction digits.
toFixed(v) ==
    LET x == IF v < 0 THEN -v ELSE v
        cent == Scale \div 100
        n == (x + cent \div 2) \div cent
    IN  (IF v < 0 THEN <<"-">> ELSE <<>>)
            \o IntToDigits(n \div 100)
            \o <<".", DigitChars[((n % 100) \div 10) + 1], DigitChars[(n % 10) + 1]>>

\* money(n?: string) of the details pages.
money(text) ==
    IF text = <<>> THEN <<"0", ".", "0", "0">>
    ELSE LET num == parseFloat(text)
         IN  IF num.nan THEN <<"0", ".", "0", "0">> ELSE toFixed(num.val)

\* Texts typed into the price, quantity, discount and roundoff fields.
RoundPriceTexts == {<<"0", ".", "0", "5">>, <<"1", "9", ".", "9", "9">>}
RoundQtyTexts == {<<"3">>}
RoundDiscountTexts == {<<>>, <<"1", "2", ".", "5">>, <<"3", "3", ".", "3", "3">>}
RoundRoundoffTexts == {<<>>, <<"-", "0", ".", "4", "0">>}

RoundNext ==
    \/ \E idx \in 1..Len(lines), p \in Products : SelectProduct(idx, p)
    \/ \E idx \in 1..Len(lines), t \in RoundQtyTexts : SetQuantity(idx, t)
    \/ \E idx \in 1..Len(lines), t \in RoundPriceTexts : SetUnitPrice(idx, t)
    \/ AddLine
    \/ \E idx \in 1..Len(lines) : RemoveLine(idx)
    \/ \E d \in {"percent", "amount"} : SetDiscountType(d)
    \/ \E t \in RoundDiscountTexts : SetDiscountValue(t)
    \/ \E t \in RoundRoundoffTexts : SetRoundoff(t)

RoundSpec == FormInit /\ [][RoundNext]_vars

\* Whether formatting v and parsing the text back gives a number within 0.01 of v.
C21_RoundTrips(v) ==
    LET back == parseFloat(toFixed(v))
        diff == back.val - v
    IN  /\ ~back.nan
        /\ diff <= Scale \div 100
        /\ -diff <= Scale \div 100
        /\ money(toFixed(v)) = toFixed(v)

\* The totals the pages format: subtotal, discountAmount and grandTotal are
\* displayed, discountAmount and roundoffAmount are submitted.
C21_Totals == {subtotal, discountAmount, grandTotal, roundoffAmount}

\* C21: for every computed total (subtotal, discount amount, grand total),
\* formatting it to 2 decimals as done for display and submission and parsing
\* the text back yields a value within 0.01 of the computed one.
C21_RoundTrip == \A v \in C21_Totals : C21_RoundTrips(v)

\* A discount with more than two decimals: the text parsed back is not the
\* computed value.
C21_Witness ==
    /\ discountAmount % (Scale \div 100) # 0
    /\ parseFloat(toFixed(discountAmount)).val # discountAmount
    /\ grandTotal % (Scale \div 100) # 0
    /\ subtotal > 0

\* 19.99 at 33.33 percent is 6.662667 and prints as 6.66; 0.05 at 12.5 percent
\* is 0.00625 and prints as 0.01; a grand total below zero keeps its sign.
C21_Examples ==
    /\ toFixed(6662667) = <<"6", ".", "6", "6">>
    /\ toFixed(6250) = <<"0", ".", "0", "1">>
    /\ toFixed(5000) = <<"0", ".", "0", "1">>
    /\ toFixed(4999) = <<"0", ".", "0", "0">>
    /\ toFixed(-400000) = <<"-", "0", ".", "4", "0">>
    /\ toFixed(-4000) = <<"-", "0", ".", "0", "0">>
    /\ toFixed(59970000) = <<"5", "9", ".", "9", "7">>
    /\ money(<<"a">>) = <<"0", ".", "0", "0">>
    /\ money(<<"5">>) = <<"5", ".", "0", "0">>

----------------------------------------------------------------------------
(* C22 *)

\* The signed-in user is not an org admin and the profile carries a store.
C22_StoreUser ==
    /\ phase = "mounted"
    /\ isAuthenticated
    /\ user.role # "org_admin"
    /\ user.store # Null

\* C22: for a user whose role is not org_admin and whose profile carries a
\* store, in every reachable authenticated state currentStore is set and its
\* id equals user.store.id.
C22_Original ==
    C22_StoreUser => (currentStore # Null /\ currentStore.id = user.store.id)

\* The steps that user can take, and the store-list responses to requests
\* issued in that user's own session, leave currentStore as it is.
C22_OwnSessionKeepsStore ==
    [][(/\ C22_StoreUser
        /\ last'.op \in {"fetch_ok", "fetch_fail", "select", "default", "login_submit"}
        /\ (last'.op = "fetch_ok" => last'.closure.user = user))
       => currentStore' = currentStore]_vars

\* Right after a login the store is the profile's.
C22_AfterLogin ==
    (C22_StoreUser /\ last.op = "login_ok")
        => (currentStore # Null /\ currentStore.id = user.store.id)

\* The only step that takes the user's store away from the profile's is a
\* store-list response to a request of another session (issued before a
\* logout), or a rehydration of what such a response stored.
C22_OnlyForeignResponsesBreak ==
    [][(C22_Original /\ ~C22_Original')
       => \/ last'.op = "fetch_ok" /\ last'.closure.user # user
          \/ last'.op = "mount"]_vars

\* A store-list response of the user's own session was handled.
C22_WitnessOwnResponse ==
    /\ C22_StoreUser
    /\ last.op = "fetch_ok"
    /\ last.closure.user = user
    /\ Len(last.stores) = 2

----------------------------------------------------------------------------
(* C23 *)

\* C23: session data exists only while authenticated: once the provider has
\* run its mount effect, if user or token is null then currentStore is null,
\* availableStores is empty and the current_store storage key is absent.
C23_Original ==
    (phase = "mounted" /\ (user = Null \/ token = Null))
        => /\ currentStore = Null
           /\ availableStores = <<>>
           /\ storage["current_store"] = Null

\* The same, right after a logout.
C23_AfterLogout == last.op = "logout" => C23_Original

\* The step that breaks it is a store-list response that was requested
\* before the logout and is handled after it (or the mount effect after a
\* reload, which finds the current_store such a response stored): login,
\* logout and the store selector keep it.
C23_OnlyLateResponsesBreak ==
    [][(C23_Original /\ ~C23_Original')
       => \/ /\ last'.op = "fetch_ok"
             /\ last'.closure.user # Null
             /\ user = Null
             /\ user' = Null
          \/ last'.op = "mount"]_vars

----------------------------------------------------------------------------
(* C25 *)

\* Whether the list holds a store with the id of store s.
C25_Lists(stores, s) == \E i \in 1..Len(stores) : stores[i].id = s.id

\* C25: once availableStores has been loaded and is non-empty, currentStore,
\* whenever it is set, is one of availableStores (same id).
C25_Original ==
    (phase = "mounted" /\ Len(availableStores) > 0 /\ currentStore # Null)
        => C25_Lists(availableStores, currentStore)

\* The same for an org admin whose own store-list request has just been
\* answered (the selection in force was made or persisted earlier).
C25_PersistedSelection ==
    (/\ phase = "mounted"
     /\ isOrgAdmin
     /\ last.op = "fetch_ok"
     /\ last.closure.user = user
     /\ Len(availableStores) > 0
     /\ currentStore # Null)
        => C25_Lists(availableStores, currentStore)

\* A store selected by the store selector (click or default) or by the
\* auto-selection of a store-list response is one of the list at that time.
C25_SelectedFromList ==
    [][(\/ last'.op \in {"select", "default"}
        \/ last'.op = "fetch_ok" /\ currentStore' # currentStore)
       => C25_Lists(availableStores', currentStore')]_vars

----------------------------------------------------------------------------
(* Part 9: the customers and vendors lists while the store is switched.     *)
(* Specification: StaleSpec.  Each list request in flight is recorded with  *)
(* the store that was selected when the effect issued it, and its response  *)
(* carries the rows of that store.                                          *)

StoreScopedViews == {"Customers", "Vendors"}

\* currentStore?.id of the session s (<<>> stands for undefined).
storeIdIn(s) == IF s.currentStore = Null THEN <<>> ELSE <<s.currentStore.id>>

\* The load() of the effect awaiting its response, issued under store id.
AwaitingUnder(id) == [await |-> "load", store |-> id]

\* What the backend answers to a list request issued under the store id.
RowsUnder(id) == <<[id |-> Num(1), name |-> "a", store |-> id]>>

\* Mutant of loadSettled: a response to a request issued under another
\* store than the one selected now is discarded.
loadSettled_discardsStale(s, pg, w, data) ==
    IF w.store = storeIdIn(s) THEN loadOk(pg, data) ELSE pg

\* load(), lines 25-26 and 30: const data = await api.listCustomers();
\* setItems(data); setLoading(false), whatever store is selected by then.
loadSettled(s, pg, w, data) == loadOk(pg, data)

\* The loading effect runs: load() up to its await.
StoreScopedEffect ==
    /\ view \in StoreScopedViews
    /\ EffectPending
    /\ BagCardinality(inflight) < MaxInflight
    /\ PageStep([op |-> "effect"])
    /\ page' = [loadStart(page) EXCEPT !.effect = [deps |-> EffectDeps(view, Session)]]
    /\ sent' = loadCalls(view)
    /\ inflight' = inflight (+) SetToBag({AwaitingUnder(storeIdIn(Session))})
    /\ UNCHANGED view

\* A list request is answered with success.
StoreScopedResponseOk(w) ==
    /\ BagIn(w, inflight)
    /\ HandlerStep([op |-> "load_ok", store |-> w.store, before |-> page.items])
    /\ page' = loadSettled(Session, page, w, RowsUnder(w.store))
    /\ inflight' = inflight (-) SetToBag({w})
    /\ sent' = <<>>
    /\ UNCHANGED view

\* A list request fails.
StoreScopedResponseFail(w, failure) ==
    /\ BagIn(w, inflight)
    /\ HandlerStep([op |-> "load_fail", store |-> w.store, failure |-> failure])
    /\ page' = loadFail(page, failure)
    /\ inflight' = inflight (-) SetToBag({w})
    /\ sent' = <<>>
    /\ UNCHANGED view

\* The route changes between the two pages.
StoreScopedNavigate(v) ==
    /\ v \in StoreScopedViews
    /\ Navigate(v)

StaleInit ==
    /\ ListInit
    /\ view \in StoreScopedViews
    /\ user = Admin

StaleNext ==
    \/ StoreScopedEffect
    \/ \E w \in BagToSet(inflight) : StoreScopedResponseOk(w)
    \/ \E w \in BagToSet(inflight), f \in Failures : StoreScopedResponseFail(w, f)
    \/ \E v \in StoreScopedViews : StoreScopedNavigate(v)
    \/ \E i \in 1..2 : ~EffectPending /\ StoreSelectorClick(i)
    \/ \E c \in BagToSet(fetches), l \in StoreLists :
           ~EffectPending /\ FetchResponseOk(c, l)
    \/ \E c \in BagToSet(fetches) : ~EffectPending /\ FetchResponseFail(c)

StaleSpec == StaleInit /\ [][StaleNext]_vars

----------------------------------------------------------------------------
(* C24 *)

\* C24: in the customers and vendors list views, the response to a list
\* request is applied to the list when it arrives, whatever store is selected
\* by then: also the response to the request issued under store A that
\* arrives after the store was switched to B and after the response to the
\* B request.
C24_StaleResponseApplied ==
    [][last'.op = "load_ok"
       => /\ page'.items = RowsUnder(last'.store)
          /\ page'.loading = FALSE
          /\ page'.error = page.error
          /\ currentStore' = currentStore]_vars

\* All responses have arrived, currentStore is B and the list shown is the
\* one fetched under A, whose response arrived after the one to the B request.
C24_Witness ==
    /\ view \in StoreScopedViews
    /\ currentStore = StoreB
    /\ inflight = EmptyBag
    /\ fetches = EmptyBag
    /\ ~EffectPending
    /\ last.op = "load_ok"
    /\ last.store = <<StoreA.id>>
    /\ last.before = RowsUnder(<<StoreB.id>>)
    /\ page.items = RowsUnder(<<StoreA.id>>)
    /\ ~page.loading

\* A response is handled while the store it was requested under is no longer
\* the selected one.
C24_WitnessStale ==
    /\ last.op = "load_ok"
    /\ last.store # storeIdIn(Session)

----------------------------------------------------------------------------
(* Part 10: the customer lookup by phone of the invoice forms               *)
(* (NewInvoicePage, EditInvoicePage).  Specification: LookupSpec.           *)

LookupViews == {"NewInvoice", "EditInvoice"}

\* A phone number of ten digits, and the customer the backend has under it.
TenDigits == <<"9", "8", "7", "6", "5", "4", "3", "2", "1", "0">>
KnownCustomer == [id |-> 1, name |-> <<"A">>, phone |-> TenDigits]

\* Texts typed into the customer name and the phone field.
NameTexts == {<<>>, <<"A">>, <<"B">>}
PhoneTexts == {<<"9">>, TenDigits}

api_findCustomerByPhone(phone) == request(<<"customers?phone=", phone>>, Get)

\* The values the effect's callback closes over: the customerName and the
\* customerPhone of the render that created it.
LookupClosure(pg) == [name |-> pg.customerName, phone |-> pg.customerPhone]

\* The effect on [customerName, customerPhone]: the cleanup of the last run
\* clears its timeout; then a new timeout is set when the phone has ten
\* characters, else existingCustomer is set to null.
lookupEffect(pg) ==
    IF Len(trim(pg.customerPhone)) >= 10
    THEN [pg EXCEPT !.timer = LookupClosure(pg)]
    ELSE [pg EXCEPT !.timer = Null, !.existingCustomer = Null]

\* A render after the state became pg: the effect runs when a dependency
\* differs from the last render's.
lookupRender(old, pg) ==
    IF LookupClosure(pg) # LookupClosure(old) THEN lookupEffect(pg) ELSE pg

\* The form after construction; EditInvoicePage after loadData has filled in
\* the invoice's customer (the effect has then set its timeout).  typed is an
\* observation: whether the name in the field was typed by the user.
LookupPage(v) ==
    LET blank == [kind |-> v, customerName |-> <<>>, customerPhone |-> <<>>,
                  existingCustomer |-> Null, timer |-> Null, typed |-> FALSE]
    IN  IF v = "EditInvoice"
        THEN lookupEffect([blank EXCEPT !.customerName = KnownCustomer.name,
                                        !.customerPhone = KnownCustomer.phone])
        ELSE blank

\* Mutant of checkExistingCustomer: the name is compared as it is in the field
\* when the response arrives.
checkExistingCustomer_readsCurrentName(pg, c, existing) ==
    IF existing # Null
    THEN [pg EXCEPT !.existingCustomer = existing,
                    !.customerName =
                        IF trim(pg.customerName) = <<>> \/ trim(pg.customerName) = existing.name
                        THEN existing.name ELSE @,
                    !.typed =
                        IF trim(pg.customerName) = <<>> \/ trim(pg.customerName) = existing.name
                        THEN FALSE ELSE @]
    ELSE [pg EXCEPT !.existingCustomer = Null]

\* checkExistingCustomer after its await, with the closure c of the render
\* that created it: customerName is read from c.
checkExistingCustomer(pg, c, existing) ==
    IF existing # Null
    THEN [pg EXCEPT !.existingCustomer = existing,
                    !.customerName =
                        IF trim(c.name) = <<>> \/ trim(c.name) = existing.name
                        THEN existing.name ELSE @,
                    !.typed =
                        IF trim(c.name) = <<>> \/ trim(c.name) = existing.name
                        THEN FALSE ELSE @]
    ELSE [pg EXCEPT !.existingCustomer = Null]

\* A step of the form: the session keeps its state and the handler is recorded.
LookupStep(op) ==
    /\ view \in LookupViews
    /\ last' = op
    /\ dispatched' = <<>>
    /\ UNCHANGED <<phase, user, token, currentStore, availableStores, storage,
                   fetches, loginReq, loginLoading, loginError>>
    /\ UNCHANGED formVars
    /\ UNCHANGED view

\* Typing in the customer name field.
TypeCustomerName(text) ==
    /\ LookupStep([op |-> "type_name", text |-> text])
    /\ page' = lookupRender(page, [page EXCEPT !.customerName = text, !.typed = TRUE])
    /\ sent' = <<>>
    /\ UNCHANGED inflight

\* Typing in the phone field.
TypeCustomerPhone(text) ==
    /\ LookupStep([op |-> "type_phone", text |-> text])
    /\ page' = lookupRender(page, [page EXCEPT !.customerPhone = text])
    /\ sent' = <<>>
    /\ UNCHANGED inflight

\* The 500 ms timeout fires: checkExistingCustomer up to its await.
LookupTimeout ==
    /\ page.timer # Null
    /\ BagCardinality(inflight) < MaxInflight
    /\ LookupStep([op |-> "timeout", closure |-> page.timer])
    /\ page' = [page EXCEPT !.timer = Null]
    /\ sent' = <<Issued("findCustomerByPhone", api_findCustomerByPhone(trim(page.timer.phone)))>>
    /\ inflight' = inflight (+) SetToBag({page.timer})

\* A lookup is answered: with the customer of that phone, or with null.
LookupResponseOk(c, existing) ==
    /\ BagIn(c, inflight)
    /\ LookupStep([op |-> "lookup_ok", closure |-> c, existing |-> existing])
    /\ page' = lookupRender(page, checkExistingCustomer(page, c, existing))
    /\ sent' = <<>>
    /\ inflight' = inflight (-) SetToBag({c})

\* A lookup fails: the catch block is empty.
LookupResponseFail(c) ==
    /\ BagIn(c, inflight)
    /\ LookupStep([op |-> "lookup_fail", closure |-> c])
    /\ sent' = <<>>
    /\ inflight' = inflight (-) SetToBag({c})
    /\ UNCHANGED page

LookupInit ==
    /\ LoggedIn(Admin, [jwt |-> "t1"], StoreA)
    /\ view \in LookupViews
    /\ page = LookupPage(view)
    /\ sent = <<>>
    /\ inflight = EmptyBag
    /\ FormIdle

LookupNext ==
    \/ \E t \in NameTexts : TypeCustomerName(t)
    \/ \E t \in PhoneTexts : TypeCustomerPhone(t)
    \/ LookupTimeout
    \/ \E c \in BagToSet(inflight), e \in {Null, KnownCustomer} : LookupResponseOk(c, e)
    \/ \E c \in BagToSet(inflight) : LookupResponseFail(c)

LookupSpec == LookupInit /\ [][LookupNext]_vars

----------------------------------------------------------------------------
(* C26 *)

\* The name in the field was typed by the user, is not blank and differs from
\* the name of the customer the lookup found.
C26_TypedAndDifferent(pg, existing) ==
    /\ pg.typed
    /\ trim(pg.customerName) # <<>>
    /\ existing # Null
    /\ trim(pg.customerName) # existing.name

\* C26: the debounced customer lookup by phone never replaces a non-empty
\* customer name typed by the user that differs from the found customer's
\* name, also when the response arrives after the name was edited.
C26_Original ==
    [][(last'.op = "lookup_ok" /\ C26_TypedAndDifferent(page, last'.existing))
       => page'.customerName = page.customerName]_vars

\* The same for a response whose closure holds the name that is in the field
\* when it arrives (the name was not edited while the lookup was under way).
C26_UneditedNameIsKept ==
    [][(/\ last'.op = "lookup_ok"
        /\ last'.closure.name = page.customerName
        /\ C26_TypedAndDifferent(page, last'.existing))
       => page'.customerName = page.customerName]_vars

\* Typing cancels a timeout that has not fired: at most one is pending, and
\* it holds the name and the phone in the fields.
C26_TimerIsCurrent ==
    view \in LookupViews => (page.timer # Null => page.timer = LookupClosure(page))

----------------------------------------------------------------------------
(* Part 11: the forms of Part 3 with quantities below zero.                 *)
(* Specification: PreviewSpec.                                              *)

\* A negative quantity typed into the Qty field (the input has no min).
PreviewQtyTexts == {<<"-", "1">>}

PreviewNext ==
    \/ SubmitNext
    \/ \E idx \in 1..Len(lines), t \in PreviewQtyTexts :
           view \in SubmitViews /\ SetQuantity(idx, t)

PreviewSpec == SubmitInit /\ [][PreviewNext]_vars

----------------------------------------------------------------------------
(* C27 *)

RECURSIVE C27_ItemsTotal(_)
\* The sum of quantity * unit_price over the line items of a request.
C27_ItemsTotal(items) ==
    IF items = <<>> THEN 0
    ELSE OrZero(Head(items).quantity)
             * OrZero(parseFloat(OrTextZero(Head(items).unit_price)))
         + C27_ItemsTotal(Tail(items))

\* The subtotal the page displays for the lines ls.
C27_Displayed(op, ls) ==
    CASE op = "createInvoice" -> NewInvoice_subtotal(ls)
      [] op = "updateInvoice" -> EditInvoice_subtotal(ls)
      [] op = "createPurchase" -> NewPurchase_subtotal(ls)

\* C27: the subtotal previewed in the invoice and purchase forms equals the
\* total of the line items actually submitted, for all quantities that can be
\* entered (including zero and negative ones).
C27_Original ==
    \A k \in 1..Len(sent) :
        sent[k].op \in C11_SubmitOps =>
            C27_ItemsTotal(C11_ItemsOf(sent[k])) = C27_Displayed(sent[k].op, sent[k].at.lines)

\* No line with a product has a quantity below zero.
C27_NoNegativeLine(ls) ==
    \A i \in 1..Len(ls) :
        ls[i].product_id # "" => (ls[i].quantity.nan \/ ls[i].quantity.val >= 0)

\* The same for the invoice forms when no line with a product has a quantity
\* below zero (lines with quantity 0 add nothing to either side).
C27_InvoiceWithoutNegatives ==
    \A k \in 1..Len(sent) :
        (sent[k].op \in {"createInvoice", "updateInvoice"} /\ C27_NoNegativeLine(sent[k].at.lines))
            => C27_ItemsTotal(C11_ItemsOf(sent[k])) = C27_Displayed(sent[k].op, sent[k].at.lines)

\* The same for New Purchase when the request is sent by Create itself (not
\* by the price-difference confirmation, which sends the lines of an earlier
\* render, see C11).
C27_PurchaseWithoutNegatives ==
    \A k \in 1..Len(sent) :
        (/\ sent[k].op = "createPurchase"
         /\ C27_NoNegativeLine(sent[k].at.lines)
         /\ C11_ItemsOf(sent[k]) = itemsAttributes(sent[k].at.lines))
            => C27_ItemsTotal(C11_ItemsOf(sent[k])) = C27_Displayed(sent[k].op, sent[k].at.lines)

\* A request sent from a form in which a line with a product has quantity -1.
C27_NegativeLineSubmitted ==
    \E k \in 1..Len(sent) :
        /\ sent[k].op = "createInvoice"
        /\ ~C27_NoNegativeLine(sent[k].at.lines)

----------------------------------------------------------------------------
(* Part 12: the invoice forms of Part 3 with their discount field.          *)
(* Specification: DiscountSpec.                                             *)

\* Texts typed into the discount field: 10 and 150, as a percentage or as an
\* amount.
SentDiscountTexts == {<<"1", "0">>, <<"1", "5", "0">>}

DiscountNext ==
    \/ SubmitNext
    \/ \E d \in {"percent", "amount"} :
           view \in {"NewInvoice", "EditInvoice"} /\ SetDiscountType(d)
    \/ \E t \in SentDiscountTexts :
           view \in {"NewInvoice", "EditInvoice"} /\ SetDiscountValue(t)

DiscountSpec == SubmitInit /\ [][DiscountNext]_vars

----------------------------------------------------------------------------
(* C28 *)

\* The discount deducted in the displayed grand total:
\* subtotal - max(0, subtotal - discountAmount).
C28_Deducted(sub, disc) == sub - Max(0, sub - disc)

\* The discount_total of the request e is the amount d to two decimals, and
\* is absent when d is zero.
C28_Sends(e, d) ==
    LET body == Parse(e.call.body).invoice
    IN  IF d > 0
        THEN body.discount_total # Undefined /\ body.discount_total.fixed = toFixed2(d)
        ELSE body.discount_total = Undefined

\* The subtotal and the discount amount the page shows when e is sent.
C28_Subtotal(e) ==
    IF e.op = "createInvoice" THEN NewInvoice_subtotal(e.at.lines)
    ELSE EditInvoice_subtotal(e.at.lines)

C28_DiscountAmount(e) ==
    IF e.op = "createInvoice"
    THEN NewInvoice_discountAmount(C28_Subtotal(e), discountType, discountValue)
    ELSE EditInvoice_discountAmount(C28_Subtotal(e), discountType, discountValue)

\* C28: the discount_total sent when an invoice is created or updated equals
\* the discount actually deducted in the displayed grand total, i.e.
\* subtotal - max(0, subtotal - discountAmount), and therefore never exceeds
\* the subtotal; when no discount is deducted, no discount_total is sent.
C28_Original ==
    \A k \in 1..Len(sent) :
        sent[k].op \in {"createInvoice", "updateInvoice"}
            => C28_Sends(sent[k], C28_Deducted(C28_Subtotal(sent[k]), C28_DiscountAmount(sent[k])))

\* What is sent is discountAmount itself, not clamped to the subtotal.
C28_SendsDiscountAmount ==
    \A k \in 1..Len(sent) :
        sent[k].op \in {"createInvoice", "updateInvoice"}
            => C28_Sends(sent[k], C28_DiscountAmount(sent[k]))

\* The two agree while the discount does not exceed the subtotal.
C28_WithinSubtotal ==
    \A k \in 1..Len(sent) :
        (/\ sent[k].op \in {"createInvoice", "updateInvoice"}
         /\ C28_DiscountAmount(sent[k]) <= C28_Subtotal(sent[k]))
            => C28_Sends(sent[k], C28_Deducted(C28_Subtotal(sent[k]), C28_DiscountAmount(sent[k])))

\* A request is sent with a discount of 10 percent of 100.
C28_WitnessPercent ==
    \E k \in 1..Len(sent) :
        /\ sent[k].op = "createInvoice"
        /\ discountType = "percent"
        /\ Parse(sent[k].call.body).invoice.discount_total = [fixed |-> 10 * 100]

----------------------------------------------------------------------------
(* Part 13: Edit Invoice from the loading of the invoice to its update.     *)
(* Specification: ReopenSpec.                                               *)

\* Invoices the backend may return from GET /invoices/5: one item of product
\* 1 at 100.00 with quantity 1, 2 or 3, and a discount_total.
LoadedQuantities == {1, 2, 3}
LoadedDiscounts ==
    {<<"0", ".", "0", "1">>, <<"0", ".", "5", "0">>, <<"1", ".", "0", "0">>,
     <<"2", ".", "5", "0">>, <<"1", "0", ".", "0", "0">>, <<"1", "0", ".", "0", "5">>,
     <<"1", "2", ".", "3", "4">>, <<"3", "3", ".", "3", "3">>, <<"5", "0", ".", "0", "0">>,
     <<"9", "9", ".", "9", "9">>, <<"1", "0", "0", ".", "0", "0">>}
LoadedInvoices ==
    {[subtotal |-> toFixed(q * 100 * Scale),
      discount_total |-> d,
      invoice_items |-> <<[product_id |-> "1", quantity |-> Num(q),
                           unit_price |-> <<"1", "0", "0", ".", "0", "0">>]>>,
      customer_name |-> <<"9", "8">>,
      customer_phone |-> <<"9", "8">>] : q \in LoadedQuantities, d \in LoadedDiscounts}

\* loadData, lines 62-76: the discount type and value the form is given.
\* percent = (discountTotal / subtotal) * 100 is the ratio 100 d / s of the two
\* amounts in hundredths; Math.round(percent) is the integer r nearest to it,
\* |percent - r| < 0.01 is |100 d - r s| * 100 < s, and percent.toFixed(2) is
\* the nearest number of hundredths n, written with two decimals.
EditInvoice_inferDiscount(invoice, dType, dValue) ==
    LET discountTotal == parseFloat(OrTextZero(invoice.discount_total))
        sub == parseFloat(OrTextZero(invoice.subtotal))
    IN  IF IsPositive(discountTotal) /\ IsPositive(sub)
        THEN LET d == discountTotal.val \div (Scale \div 100)
                 s == sub.val \div (Scale \div 100)
                 r == (200 * d + s) \div (2 * s)
                 off == 100 * d - r * s
                 n == (20000 * d + s) \div (2 * s)
             IN  IF (IF off < 0 THEN -off ELSE off) * 100 < s
                 THEN [type |-> "percent", value |-> toFixed(n * (Scale \div 100))]
                 ELSE [type |-> "amount", value |-> toFixed(discountTotal.val)]
        ELSE [type |-> dType, value |-> dValue]

\* The page while loadData awaits the invoice.
ReopenPage ==
    [kind |-> "EditInvoice", customerName |-> <<>>, customerPhone |-> <<>>,
     vendorId |-> "", loading |-> FALSE, error |-> Null, priceDiffModal |-> Null,
     loadingInvoice |-> TRUE]

ReopenInit ==
    /\ LoggedIn(Admin, [jwt |-> "t1"], StoreA)
    /\ view = "EditInvoice"
    /\ page = ReopenPage
    /\ sent = <<>>
    /\ inflight = SetToBag({"getInvoice"})
    /\ lines = <<EmptyLine>>
    /\ discountType = "amount"
    /\ discountValue = <<>>
    /\ roundoff = <<>>

\* loadData after its await: the form is filled in from the invoice.
EditInvoice_loadDataOk(invoice) ==
    /\ view = "EditInvoice"
    /\ BagIn("getInvoice", inflight)
    /\ inflight' = inflight (-) SetToBag({"getInvoice"})
    /\ page' = [page EXCEPT !.customerName = invoice.customer_name,
                            !.customerPhone = invoice.customer_phone,
                            !.loadingInvoice = FALSE]
    /\ discountType' = EditInvoice_inferDiscount(invoice, discountType, discountValue).type
    /\ discountValue' = EditInvoice_inferDiscount(invoice, discountType, discountValue).value
    /\ lines' = invoice.invoice_items
    /\ last' = [op |-> "load_invoice", invoice |-> invoice]
    /\ sent' = <<>>
    /\ dispatched' = <<>>
    /\ UNCHANGED <<phase, user, token, currentStore, availableStores, storage,
                   fetches, loginReq, loginLoading, loginError>>
    /\ UNCHANGED <<roundoff, view>>

\* loadData fails: the error is shown and the form keeps its initial values.
EditInvoice_loadDataFail(failure) ==
    /\ view = "EditInvoice"
    /\ BagIn("getInvoice", inflight)
    /\ inflight' = inflight (-) SetToBag({"getInvoice"})
    /\ page' = [page EXCEPT !.error = requestError(failure), !.loadingInvoice = FALSE]
    /\ last' = [op |-> "load_invoice_fail"]
    /\ sent' = <<>>
    /\ dispatched' = <<>>
    /\ UNCHANGED <<phase, user, token, currentStore, availableStores, storage,
                   fetches, loginReq, loginLoading, loginError>>
    /\ UNCHANGED formVars
    /\ UNCHANGED view

ReopenNext ==
    \/ \E inv \in LoadedInvoices : EditInvoice_loadDataOk(inv)
    \/ \E f \in Failures : EditInvoice_loadDataFail(f)
    \/ \E t \in CustomerTexts : page.kind = "EditInvoice" /\ ~page.loadingInvoice /\ SetCustomerName(t)
    \/ \E t \in CustomerTexts : page.kind = "EditInvoice" /\ ~page.loadingInvoice /\ SetCustomerPhone(t)
    \/ page.kind = "EditInvoice" /\ ~page.loadingInvoice /\ EditInvoice_onUpdate
    \/ \E r \in BagToSet(inflight) : r = "updateInvoice" /\ SubmitResponseOk(r)
    \/ \E r \in BagToSet(inflight), m \in ServerErrors :
           r = "updateInvoice" /\ SubmitResponseFail(r, m)

ReopenSpec == ReopenInit /\ [][ReopenNext]_vars

----------------------------------------------------------------------------
(* C29 *)

\* The update request carries the discount_total of the invoice inv.
C29_SendsLoaded(e, inv) ==
    LET body == Parse(e.call.body).invoice
    IN  /\ body.discount_total # Undefined
        /\ body.discount_total.fixed * (Scale \div 100) = parseFloat(inv.discount_total).val

\* C29: opening an existing invoice in the Edit Invoice page and saving it
\* without editing the discount or the lines submits the discount_total that
\* was loaded, for every loaded subtotal > 0 and discount_total > 0.
C29_Original ==
    \A k \in 1..Len(sent) :
        (sent[k].op = "updateInvoice" /\ last.op = "load_invoice")
            => C29_SendsLoaded(sent[k], last.invoice)

\* The same for the invoices whose discount is taken as a fixed amount.
C29_FixedAmountIsKept ==
    \A k \in 1..Len(sent) :
        (sent[k].op = "updateInvoice" /\ last.op = "load_invoice" /\ discountType = "amount")
            => C29_SendsLoaded(sent[k], last.invoice)

\* The same for the invoices whose discount is a whole percentage of the
\* subtotal.
C29_WholePercentIsKept ==
    \A k \in 1..Len(sent) :
        (/\ sent[k].op = "updateInvoice"
         /\ last.op = "load_invoice"
         /\ \E r \in 1..100 :
                (parseFloat(last.invoice.discount_total).val \div Scale) * 100
                    = r * (parseFloat(last.invoice.subtotal).val \div Scale)
                /\ parseFloat(last.invoice.discount_total).val % Scale = 0)
            => C29_SendsLoaded(sent[k], last.invoice)

\* An invoice of 300.00 with a discount of 0.01 is saved without a discount.
C29_DiscountLost ==
    \E k \in 1..Len(sent) :
        /\ sent[k].op = "updateInvoice"
        /\ last.op = "load_invoice"
        /\ last.invoice.discount_total = <<"0", ".", "0", "1">>
        /\ Parse(sent[k].call.body).invoice.discount_total = Undefined

\* The inference on the examples: 10.00 of 100.00 is 10 percent; 0.01 of
\* 300.00 is taken as 0.00 percent; 99.99 of 200.00 as 50.00 percent; 12.34 of
\* 100.00 is a fixed amount.
C29_Examples ==
    LET inv(s, d) == [subtotal |-> s, discount_total |-> d]
    IN  /\ EditInvoice_inferDiscount(inv(<<"1", "0", "0", ".", "0", "0">>, <<"1", "0", ".", "0", "0">>), "amount", <<>>)
               = [type |-> "percent", value |-> <<"1", "0", ".", "0", "0">>]
        /\ EditInvoice_inferDiscount(inv(<<"3", "0", "0", ".", "0", "0">>, <<"0", ".", "0", "1">>), "amount", <<>>)
               = [type |-> "percent", value |-> <<"0", ".", "0", "0">>]
        /\ EditInvoice_inferDiscount(inv(<<"2", "0", "0", ".", "0", "0">>, <<"9", "9", ".", "9", "9">>), "amount", <<>>)
               = [type |-> "percent", value |-> <<"5", "0", ".", "0", "0">>]
        /\ EditInvoice_inferDiscount(inv(<<"1", "0", "0", ".", "0", "0">>, <<"1", "2", ".", "3", "4">>), "amount", <<>>)
               = [type |-> "amount", value |-> <<"1", "2", ".", "3", "4">>]
        /\ EditInvoice_inferDiscount(inv(<<"1", "0", "0", ".", "0", "0">>, <<"0">>), "amount", <<>>)
               = [type |-> "amount", value |-> <<>>]

----------------------------------------------------------------------------
(* Part 14: New Purchase and its price-difference confirmation.             *)
(* Specification: PurchaseSpec.                                             *)

\* The unit price typed into a purchase line: the product's purchase price,
\* which selecting the product fills in, is 90, and 100 differs from it.
PurchasePriceTexts == {<<"1", "0", "0">>}

PurchaseInit ==
    /\ LoggedIn(Admin, [jwt |-> "t1"], StoreA)
    /\ view = "NewPurchase"
    /\ page = SubmitPage(view)
    /\ sent = <<>>
    /\ inflight = EmptyBag
    /\ lines = <<EmptyLine>>
    /\ discountType = "percent"
    /\ discountValue = <<>>
    /\ roundoff = <<>>

PurchaseNext ==
    \/ \E idx \in 1..Len(lines), p \in Products : PurchaseSelectProduct(idx, p)
    \/ \E idx \in 1..Len(lines), t \in PurchasePriceTexts :
           view = "NewPurchase" /\ SetUnitPrice(idx, t)
    \/ view = "NewPurchase" /\ AddLine
    \/ \E idx \in 1..Len(lines) : view = "NewPurchase" /\ RemoveLine(idx)
    \/ \E v \in VendorIds : SelectVendor(v)
    \/ NewPurchase_onCreate
    \/ PriceDiffConfirm
    \/ PriceDiffCancel
    \/ \E r \in BagToSet(inflight) : SubmitResponseOk(r)
    \/ \E r \in BagToSet(inflight), m \in ServerErrors : SubmitResponseFail(r, m)

PurchaseSpec == PurchaseInit /\ [][PurchaseNext]_vars

----------------------------------------------------------------------------
(* C30 *)

\* Some line with a selected product has a positive unit price that differs
\* by more than 0.01 from the product's positive purchase price, and the
\* product has stock.
C30_PriceDiffers(ls) ==
    \E i \in 1..Len(ls), p \in Products :
        /\ ls[i].product_id = p.id
        /\ p.current_stock > 0
        /\ IsPositive(parseFloat(p.purchase_price))
        /\ IsPositive(parseFloat(ls[i].unit_price))
        /\ Max(parseFloat(p.purchase_price).val - parseFloat(ls[i].unit_price).val,
               parseFloat(ls[i].unit_price).val - parseFloat(p.purchase_price).val)
               > Scale \div 100

\* The step sends exactly one request, a create-purchase.
C30_SendsOne ==
    /\ Len(sent') = 1
    /\ sent'[1].op = "createPurchase"
    /\ inflight' = inflight (+) SetToBag({"createPurchase"})

\* The step sends nothing.
C30_SendsNone == sent' = <<>> /\ inflight' = inflight

\* C30: in New Purchase, when the price of some line differs, pressing Create
\* sends no create-purchase request and opens the price-difference dialog;
\* cancelling the dialog sends no request and leaves the form unchanged;
\* confirming sends exactly one request; and while a price differs a request
\* is sent by the confirmation only.
C30_DialogGatesRequest ==
    [][/\ (NewPurchase_onCreate /\ C30_PriceDiffers(lines))
              => (C30_SendsNone /\ page'.priceDiffModal # Null /\ UNCHANGED formVars)
       /\ PriceDiffCancel
              => /\ C30_SendsNone
                 /\ UNCHANGED formVars
                 /\ page' = [page EXCEPT !.priceDiffModal = Null]
       /\ PriceDiffConfirm => (C30_SendsOne /\ page'.priceDiffModal = Null)
       /\ (view = "NewPurchase" /\ sent' # <<>> /\ C30_PriceDiffers(lines))
              => PriceDiffConfirm]_vars

\* A purchase with a differing price has been sent (after the confirmation).
C30_Witness ==
    /\ Len(sent) = 1
    /\ sent[1].op = "createPurchase"
    /\ page.priceDiffModal = Null
    /\ \E i \in 1..Len(C11_ItemsOf(sent[1])) :
           C11_ItemsOf(sent[1])[i].unit_price = <<"1", "0", "0">>

\* The dialog is open over a form whose price differs.
C30_WitnessOpen == page.kind = "NewPurchase" /\ page.priceDiffModal # Null /\ C30_PriceDiffers(lines)

\* The dialog has been cancelled: it is closed, nothing is awaited and the
\* price still differs.
C30_WitnessCancelled ==
    /\ page.kind = "NewPurchase"
    /\ page.priceDiffModal = Null
    /\ page.vendorId # ""
    /\ ~page.loading
    /\ sent = <<>>
    /\ inflight = EmptyBag
    /\ C30_PriceDiffers(lines)

\* A purchase at the product's purchase price is sent without the dialog.
C30_WitnessDirect ==
    /\ Len(sent) = 1
    /\ sent[1].op = "createPurchase"
    /\ \A i \in 1..Len(C11_ItemsOf(sent[1])) :
           C11_ItemsOf(sent[1])[i].unit_price = <<"9", "0">>

====
